---- MODULE Spec2Model ----
(***************************************************************************)
(* Model of src/gc/windows/gcenv.windows.cpp: the Windows implementation   *)
(* of the GC's OS interface.  These parts of the file are modelled:        *)
(*   - processor-group discovery (Initialize, InitCPUGroupInfo*, GCD/LCM,  *)
(*     GetTotalProcessorCount, GetGroupForProcessor);                      *)
(*   - the restricted physical memory limit                                *)
(*     (GetRestrictedPhysicalMemoryLimit, GetPhysicalMemoryLimit), run by  *)
(*     several threads, one shared-memory access per step;                 *)
(*   - the memory status (GetMemoryStatus), with its float arithmetic;     *)
(*   - the virtual memory calls (VirtualReserve .. VirtualReset,           *)
(*     GetWriteWatch) over the pages of a small address space;             *)
(*   - the cache size (GetCacheSizePerLogicalCpu, GetLPI,                  *)
(*     GetLogicalProcessorCacheSizeFromOS);                                *)
(*   - the process (GetCurrentProcessId, GetCurrentProcessCpuCount).       *)
(* size_t is scaled to 31 bits: UINTPTR_MAX is 2^31 - 1, and every size    *)
(* the OS reports stays below it.  DWORD arithmetic keeps its 32 bits.     *)
(***************************************************************************)
EXTENDS Integers, Sequences, FiniteSets, TLC

VARIABLES
    \* ---- processor groups ----
    cpuOs,                          \* what the OS and GCConfig answer during Initialize
    initPc,                         \* "start" | "done" (Initialize returned) | "assert" (an assert
                                    \* fired) | "oob" (GroupInfo was read out of bounds)
    g_SystemInfo,
    g_fEnableGCNumaAware,
    g_fEnableGCCPUGroups,
    g_fHadSingleProcessorAtStartup,
    g_nGroups,
    g_nProcessors,
    g_CPUGroupInfoArray,            \* sequence of CPU_Group_Info; <<>> also stands for NULL
    cpuCall,                        \* the last query made after Initialize, with its outputs
    \* ---- restricted physical memory limit ----
    memOs,                          \* the immutable OS facts of this run
    g_RestrictedPhysicalMemoryLimit,
    g_UseRestrictedVirtualMemory,
    GCGetProcessMemoryInfo,         \* TRUE: points at K32GetProcessMemoryInfo, FALSE: null
    kernel32Refs,                   \* LoadLibraryEx minus FreeLibrary
    pc,                             \* per thread: the source line it is about to execute
    loc,                            \* per thread: the locals of the call in progress
    done,                           \* per thread: the results of its completed calls, oldest first
    \* ---- memory status ----
    statusOs,                       \* what the OS answers to GetMemoryStatus's queries
    statusCall,                     \* the last GetMemoryStatus call, with its outputs
    \* ---- virtual memory ----
    vmPages,                        \* per page of the address space: its state and its allocation
    vmWatch,                        \* the allocations reserved with MEM_WRITE_WATCH (their bases)
    vmDirty,                        \* the pages the OS's write watch holds as written
    vmLocked,                       \* the pages locked in physical memory
    vmWritten,                      \* the pages the program wrote since their last reset
    vmCall,                         \* the last virtual memory call, with its result
    \* ---- cache size ----
    cacheOs,                        \* the build, what cpuid answers and what the OS enumerates
    maxSize,                        \* static size_t maxSize of GetCacheSizePerLogicalCpu
    maxTrueSize,                    \* static size_t maxTrueSize
    cacheCall,                      \* the last GetCacheSizePerLogicalCpu call, with its result
    \* ---- the process ----
    procOs,                         \* the identifiers of the process and its threads, its affinity
    cCPUs,                          \* static int cCPUs of GetCurrentProcessCpuCount
    pidCall,                        \* per thread: what its last GetCurrentProcessId returned, 0 before
    cpuCountCall                    \* the last GetCurrentProcessCpuCount call, with its result

cpuVars == <<cpuOs, initPc, g_SystemInfo, g_fEnableGCNumaAware, g_fEnableGCCPUGroups,
             g_fHadSingleProcessorAtStartup, g_nGroups, g_nProcessors,
             g_CPUGroupInfoArray, cpuCall>>
memVars == <<memOs, g_RestrictedPhysicalMemoryLimit, g_UseRestrictedVirtualMemory,
             GCGetProcessMemoryInfo, kernel32Refs, pc, loc, done>>
statusVars == <<statusOs, statusCall>>
vmVars == <<vmPages, vmWatch, vmDirty, vmLocked, vmWritten, vmCall>>
cacheVars == <<cacheOs, maxSize, maxTrueSize, cacheCall>>
procVars == <<procOs, cCPUs, pidCall, cpuCountCall>>
vars == <<cpuVars, memVars, statusVars, vmVars, cacheVars, procVars>>

-----------------------------------------------------------------------------
(* Bounds of the model *)

MaxGroups == 3          \* SpecCpu: at most this many processor groups
MaxActive == 3          \* SpecCpu: active processors per group range over 1..MaxActive
MaxWeightGroups == 6    \* SpecWeight: at most this many processor groups
MaxMem == 3             \* SpecLimit, SpecMem: memory sizes range over 0..MaxMem
NThreads == 2           \* SpecMem: threads calling concurrently
MaxCalls == 2           \* calls each thread makes
MaxPages == 2           \* SpecVm, SpecWatch: pages of the address space
MaskBits == 3           \* SpecProc: processors an affinity mask has a bit for

-----------------------------------------------------------------------------
(* Unsigned arithmetic.  A DWORD does not fit TLC's integers, so unsigned   *)
(* values are four base-2^16 digits, least significant first: 64 bits.      *)
(* A DWORD is such a value with its two high digits zero.                   *)

DigitBase == 2^16
WordModulus == 2^16

BigOf(n) == <<n % DigitBase, n \div DigitBase, 0, 0>>

BigZero == BigOf(0)

\* x * m for a multiplier m < 2^15, modulo 2^64
BigMul(x, m) ==
    LET p1 == x[1] * m
        p2 == x[2] * m + (p1 \div DigitBase)
        p3 == x[3] * m + (p2 \div DigitBase)
        p4 == x[4] * m + (p3 \div DigitBase)
    IN  <<p1 % DigitBase, p2 % DigitBase, p3 % DigitBase, p4 % DigitBase>>

\* quotient and remainder of x by a divisor 0 < d < 2^15
BigDivMod(x, d) ==
    LET t4 == x[4]
        t3 == (t4 % d) * DigitBase + x[3]
        t2 == (t3 % d) * DigitBase + x[2]
        t1 == (t2 % d) * DigitBase + x[1]
    IN  [quot |-> <<t1 \div d, t2 \div d, t3 \div d, t4 \div d>>, rem |-> t1 % d]

\* (DWORD) conversion: the low 32 bits
ToDWORD(x) == <<x[1], x[2], 0, 0>>

RECURSIVE GCDLoop(_, _)
\* the loop of GCD once both operands are below 2^16
GCDLoop(u, v) == IF v = 0 THEN u ELSE GCDLoop(v, u % v)

-----------------------------------------------------------------------------
(* Processor groups: GCD, LCM, InitCPUGroupInfoArray, InitCPUGroupInfoRange *)

OS_PAGE_SIZE == 4096

\* DWORD GCD(DWORD u, DWORD v): u is a DWORD, v a value below 2^15.
\* The first turn of the loop leaves (v, u % v), both small.
GCD(u, v) == IF v = 0 THEN u ELSE BigOf(GCDLoop(v, BigDivMod(u, v).rem))

\* DWORD LCM(DWORD u, DWORD v): u / GCD(u, v) * v in 32 bits
LCM(u, v) ==
    IF v = 0 THEN BigZero
    ELSE ToDWORD(BigMul(BigDivMod(u, GCD(u, v)[1]).quot, v))

RECURSIVE FindGroupRecord(_, _, _)
\* the while loop over the records of the buffer: the index of the first
\* RelationGroup record, 0 when byteOffset reaches cbSLPIEx without one
FindGroupRecord(buffer, byteOffset, cbSLPIEx) ==
    IF byteOffset >= cbSLPIEx THEN 0
    ELSE IF buffer[byteOffset + 1].Relationship = "RelationGroup" THEN byteOffset + 1
    ELSE FindGroupRecord(buffer, byteOffset + buffer[byteOffset + 1].Size, cbSLPIEx)

RECURSIVE WeightUpTo(_, _)
\* dwWeight after the first i turns of the first loop
WeightUpTo(active, i) ==
    IF i = 0 THEN BigOf(1) ELSE LCM(WeightUpTo(active, i - 1), active[i])

RECURSIVE SumUpTo(_, _)
SumUpTo(active, i) == IF i = 0 THEN 0 ELSE SumUpTo(active, i - 1) + active[i]

\* bool InitCPUGroupInfoArray(): the value returned, whether assert(cbSLPIEx)
\* fired, whether GroupInfo was read out of bounds, and the statics it leaves
InitCPUGroupInfoArray(os, nGroups0, nProcessors0, array0) ==
    LET fail == [ret |-> FALSE, asserted |-> FALSE, oob |-> FALSE,
                 g_nGroups |-> nGroups0, g_nProcessors |-> nProcessors0,
                 g_CPUGroupInfoArray |-> array0]
    IN  IF os.sizing.ret /\ os.sizing.err # "ERROR_INSUFFICIENT_BUFFER" THEN fail
        ELSE IF os.sizing.cbSLPIEx = 0 THEN [fail EXCEPT !.asserted = TRUE]
        ELSE IF ~os.allocBuffer THEN fail
        ELSE IF ~os.secondCall THEN fail
        ELSE
            LET cbSLPIEx == Len(os.buffer)
                rec == FindGroupRecord(os.buffer, 0, cbSLPIEx)
                nGroups == IF rec = 0 THEN nGroups0 ELSE os.buffer[rec].ActiveGroupCount
                oob == nGroups > 0 /\ (rec = 0 \/ nGroups > Len(os.buffer[rec].GroupInfo))
            IN  IF ~os.allocArray THEN [fail EXCEPT !.g_nGroups = nGroups]
                ELSE IF oob THEN [fail EXCEPT !.g_nGroups = nGroups, !.oob = TRUE]
                ELSE
                    LET info == IF rec = 0 THEN <<>> ELSE os.buffer[rec].GroupInfo
                        active == [i \in 1..nGroups |->
                                      info[i].ActiveProcessorCount % WordModulus]
                        dwWeight == WeightUpTo(active, nGroups)
                    IN  [ret |-> TRUE, asserted |-> FALSE, oob |-> FALSE,
                         g_nGroups |-> nGroups,
                         g_nProcessors |-> nProcessors0 + SumUpTo(active, nGroups),
                         g_CPUGroupInfoArray |->
                            [i \in 1..nGroups |->
                                [nr_active |-> active[i],
                                 begin |-> 0,
                                 end |-> 0,
                                 active_mask |-> info[i].ActiveProcessorMask,
                                 groupWeight |-> BigDivMod(dwWeight, active[i]).quot,
                                 activeThreadWeight |-> 0]]]

RECURSIVE NrProcUpTo(_, _)
\* WORD nr_proc after the first i turns of the loop of InitCPUGroupInfoRange
NrProcUpTo(array, i) ==
    IF i = 0 THEN 0 ELSE (NrProcUpTo(array, i - 1) + array[i].nr_active) % WordModulus

\* a plausible slip at line 175: end is one past the last processor of the group
InitCPUGroupInfoRangeEndPastLast(array, nGroups) ==
    [i \in 1..nGroups |->
        [array[i] EXCEPT !.begin = NrProcUpTo(array, i - 1),
                         !.end = NrProcUpTo(array, i)]]

\* bool InitCPUGroupInfoRange(): the array with begin and end filled in
InitCPUGroupInfoRange(array, nGroups) ==
    [i \in 1..nGroups |->
        [array[i] EXCEPT !.begin = NrProcUpTo(array, i - 1),
                         !.end = (NrProcUpTo(array, i) - 1) % WordModulus]]

RECURSIVE BitAnd(_, _)
BitAnd(a, b) ==
    IF a = 0 \/ b = 0 THEN 0
    ELSE (a % 2) * (b % 2) + 2 * BitAnd(a \div 2, b \div 2)

\* the tail of InitCPUGroupInfo: is the process bound to a single processor
SingleProcessorAffinity(os, had0) ==
    IF os.affinityOk
    THEN LET processAffinityMask == BitAnd(os.processAffinityMask, os.systemAffinityMask)
         IN  IF processAffinityMask # 0
                /\ BitAnd(processAffinityMask, processAffinityMask - 1) = 0
             THEN TRUE ELSE had0
    ELSE had0

\* a plausible slip at line 200: one group is enough to enable groups
MoreThanOneGroupOffByOne(nGroups) == nGroups >= 1

\* line 200: only enable CPU groups if more than one group exists
MoreThanOneGroup(nGroups) == nGroups > 1

\* void InitCPUGroupInfo()
InitCPUGroupInfo(os, nGroups0, nProcessors0, array0, had0) ==
    LET early == [asserted |-> FALSE, oob |-> FALSE,
                  g_fEnableGCCPUGroups |-> FALSE,
                  g_nGroups |-> nGroups0, g_nProcessors |-> nProcessors0,
                  g_CPUGroupInfoArray |-> array0,
                  g_fHadSingleProcessorAtStartup |-> had0]
    IN  IF ~os.GCCpuGroup THEN early
        ELSE
            LET a == InitCPUGroupInfoArray(os, nGroups0, nProcessors0, array0)
                after == [early EXCEPT !.g_nGroups = a.g_nGroups,
                                       !.g_nProcessors = a.g_nProcessors,
                                       !.g_CPUGroupInfoArray = a.g_CPUGroupInfoArray,
                                       !.oob = a.oob]
            IN  IF a.asserted THEN [after EXCEPT !.asserted = TRUE]
                ELSE IF ~a.ret THEN after
                ELSE [after EXCEPT
                        !.g_CPUGroupInfoArray =
                            InitCPUGroupInfoRange(a.g_CPUGroupInfoArray, a.g_nGroups),
                        !.g_fEnableGCCPUGroups = MoreThanOneGroup(a.g_nGroups),
                        !.g_fHadSingleProcessorAtStartup =
                            SingleProcessorAffinity(os, had0)]

\* void InitNumaNodeInfo(): the value it leaves in g_fEnableGCNumaAware
InitNumaNodeInfo(os) ==
    os.GCNumaAware /\ os.numaOk /\ os.highest # 0

\* a plausible slip in GetTotalProcessorCount: the group count is never consulted
GetTotalProcessorCountIgnoringGroups(enabled, nProcessors, systemInfo) ==
    systemInfo.dwNumberOfProcessors

\* uint32_t GCToOSInterface::GetTotalProcessorCount()
GetTotalProcessorCount(enabled, nProcessors, systemInfo) ==
    IF enabled THEN nProcessors ELSE systemInfo.dwNumberOfProcessors

RECURSIVE GroupScan(_, _, _, _, _, _)
\* the for loop of GetGroupForProcessor, i counted from 0
GroupScan(array, nGroups, processor_number, i, bTemp, bDiff) ==
    IF i >= nGroups THEN [written |-> FALSE, group_number |-> 0, group_processor_number |-> 0]
    ELSE LET t == (bTemp + array[i + 1].nr_active) % WordModulus
         IN  IF t > processor_number
             THEN [written |-> TRUE, group_number |-> i, group_processor_number |-> bDiff]
             ELSE GroupScan(array, nGroups, processor_number, i + 1, t,
                            (processor_number - t) % WordModulus)

\* void GCToOSInterface::GetGroupForProcessor(processor_number, group_number*, group_processor_number*)
GetGroupForProcessor(array, nGroups, processor_number) ==
    GroupScan(array, nGroups, processor_number, 0, 0, processor_number % WordModulus)

-----------------------------------------------------------------------------
(* Processor groups: what the OS may answer *)

Topologies(maxGroups, sizes) == UNION {[1..n -> sizes] : n \in 1..maxGroups}

\* the RelationGroup record the OS returns for a topology
GroupRecord(topo) ==
    [Relationship |-> "RelationGroup", Size |-> 1,
     ActiveGroupCount |-> Len(topo),
     GroupInfo |-> [i \in 1..Len(topo) |->
                      [ActiveProcessorCount |-> topo[i],
                       ActiveProcessorMask |-> 0..(topo[i] - 1)]]]

OtherRecord ==
    [Relationship |-> "RelationProcessorCore", Size |-> 1,
     ActiveGroupCount |-> 0, GroupInfo |-> <<>>]

SizingNormal(buffer) ==
    [ret |-> FALSE, err |-> "ERROR_INSUFFICIENT_BUFFER", cbSLPIEx |-> Len(buffer)]

\* the sizing call going wrong: failing for another reason, reporting a zero
\* size, or succeeding with nothing to report
SizingFailures ==
    { [ret |-> FALSE, err |-> "ERROR_NOT_SUPPORTED", cbSLPIEx |-> 0],
      [ret |-> FALSE, err |-> "ERROR_INSUFFICIENT_BUFFER", cbSLPIEx |-> 0],
      [ret |-> TRUE, err |-> "ERROR_SUCCESS", cbSLPIEx |-> 0] }

AffinityCases(masks) ==
    { [affinityOk |-> FALSE, processAffinityMask |-> 0, systemAffinityMask |-> 0] }
    \cup { [affinityOk |-> TRUE, processAffinityMask |-> m[1], systemAffinityMask |-> m[2]] :
              m \in masks }

NumaCases ==
    { [GCNumaAware |-> FALSE, numaOk |-> TRUE, highest |-> 1],
      [GCNumaAware |-> TRUE, numaOk |-> TRUE, highest |-> 1] }

\* every call succeeds and the buffer holds the one RelationGroup record
NormalCpuOs(topo, nProc, aff, numa) ==
    [GCCpuGroup |-> TRUE,
     sizing |-> SizingNormal(<<GroupRecord(topo)>>),
     allocBuffer |-> TRUE,
     secondCall |-> TRUE,
     buffer |-> <<GroupRecord(topo)>>,
     allocArray |-> TRUE,
     systemInfo |-> [dwNumberOfProcessors |-> nProc,
                     dwPageSize |-> OS_PAGE_SIZE,
                     dwAllocationGranularity |-> 16 * OS_PAGE_SIZE],
     GCNumaAware |-> numa.GCNumaAware, numaOk |-> numa.numaOk, highest |-> numa.highest,
     affinityOk |-> aff.affinityOk,
     processAffinityMask |-> aff.processAffinityMask,
     systemAffinityMask |-> aff.systemAffinityMask]

\* the normal answers, and each single departure from them
CpuScenarios(n) ==
    {n}
    \cup {[n EXCEPT !.GCCpuGroup = FALSE]}
    \cup {[n EXCEPT !.sizing = z, !.secondCall = FALSE] : z \in SizingFailures}
    \cup {[n EXCEPT !.allocBuffer = FALSE]}
    \cup {[n EXCEPT !.secondCall = FALSE]}
    \cup {[n EXCEPT !.allocArray = FALSE]}
    \cup {[n EXCEPT !.buffer = <<OtherRecord>> \o n.buffer,
                    !.sizing = SizingNormal(<<OtherRecord>> \o n.buffer)]}
    \cup {[n EXCEPT !.buffer = <<OtherRecord>>,
                    !.sizing = SizingNormal(<<OtherRecord>>)]}

\* the statics as the loader leaves them, no call made yet
CpuStart ==
    /\ initPc = "start"
    /\ g_SystemInfo = [dwNumberOfProcessors |-> 0, dwPageSize |-> 0,
                       dwAllocationGranularity |-> 0]
    /\ g_fEnableGCNumaAware = FALSE
    /\ g_fEnableGCCPUGroups = FALSE
    /\ g_fHadSingleProcessorAtStartup = FALSE
    /\ g_nGroups = 0
    /\ g_nProcessors = 0
    /\ g_CPUGroupInfoArray = <<>>
    /\ cpuCall = [op |-> "none"]

CpuInit ==
    /\ CpuStart
    /\ \E topo \in Topologies(MaxGroups, 1..MaxActive) :
       \E g \in 1..Len(topo) :
       \E aff \in AffinityCases({<<1, 1>>, <<2, 3>>, <<3, 3>>}) :
       \E numa \in NumaCases :
          cpuOs \in CpuScenarios(NormalCpuOs(topo, topo[g], aff, numa))

\* the group sizes of SpecWeight: small ones, and the large ones with few common factors
WeightSizes == {1, 53, 55, 59, 61, 63, 64}

WeightInit ==
    /\ CpuStart
    /\ \E topo \in Topologies(MaxWeightGroups, WeightSizes) :
          cpuOs = NormalCpuOs(topo, topo[1],
                              [affinityOk |-> TRUE, processAffinityMask |-> 3,
                               systemAffinityMask |-> 3],
                              [GCNumaAware |-> FALSE, numaOk |-> TRUE, highest |-> 1])

-----------------------------------------------------------------------------
(* Processor groups: the operations *)

\* bool GCToOSInterface::Initialize()
Initialize ==
    /\ initPc = "start"
    /\ g_SystemInfo' = cpuOs.systemInfo
    /\ IF cpuOs.systemInfo.dwPageSize # OS_PAGE_SIZE
       THEN /\ initPc' = "assert"
            /\ UNCHANGED <<g_fEnableGCNumaAware, g_fEnableGCCPUGroups,
                           g_fHadSingleProcessorAtStartup, g_nGroups, g_nProcessors,
                           g_CPUGroupInfoArray>>
       ELSE \E r \in {InitCPUGroupInfo(cpuOs, g_nGroups, g_nProcessors,
                                       g_CPUGroupInfoArray, g_fHadSingleProcessorAtStartup)} :
                /\ g_fEnableGCNumaAware' = InitNumaNodeInfo(cpuOs)
                /\ g_fEnableGCCPUGroups' = r.g_fEnableGCCPUGroups
                /\ g_nGroups' = r.g_nGroups
                /\ g_nProcessors' = r.g_nProcessors
                /\ g_CPUGroupInfoArray' = r.g_CPUGroupInfoArray
                /\ g_fHadSingleProcessorAtStartup' = r.g_fHadSingleProcessorAtStartup
                /\ initPc' = IF r.asserted THEN "assert"
                             ELSE IF r.oob THEN "oob" ELSE "done"
    /\ UNCHANGED <<cpuOs, cpuCall, memVars, statusVars, vmVars, cacheVars, procVars>>

\* a caller asks GetTotalProcessorCount()
CallGetTotalProcessorCount ==
    /\ initPc = "done"
    /\ cpuCall' = [op |-> "GetTotalProcessorCount",
                   result |-> GetTotalProcessorCount(g_fEnableGCCPUGroups, g_nProcessors,
                                                     g_SystemInfo)]
    /\ UNCHANGED <<cpuOs, initPc, g_SystemInfo, g_fEnableGCNumaAware, g_fEnableGCCPUGroups,
                   g_fHadSingleProcessorAtStartup, g_nGroups, g_nProcessors,
                   g_CPUGroupInfoArray, memVars, statusVars, vmVars, cacheVars, procVars>>

\* a caller asks GetGroupForProcessor(processor_number, ...) for a processor
\* below GetTotalProcessorCount(); the function asserts that groups are enabled
CallGetGroupForProcessor ==
    /\ initPc = "done"
    /\ g_fEnableGCCPUGroups
    /\ \E processor_number \in
            0..(GetTotalProcessorCount(g_fEnableGCCPUGroups, g_nProcessors, g_SystemInfo) - 1) :
          cpuCall' = [op |-> "GetGroupForProcessor",
                      processor_number |-> processor_number,
                      out |-> GetGroupForProcessor(g_CPUGroupInfoArray, g_nGroups,
                                                   processor_number)]
    /\ UNCHANGED <<cpuOs, initPc, g_SystemInfo, g_fEnableGCNumaAware, g_fEnableGCCPUGroups,
                   g_fHadSingleProcessorAtStartup, g_nGroups, g_nProcessors,
                   g_CPUGroupInfoArray, memVars, statusVars, vmVars, cacheVars, procVars>>

-----------------------------------------------------------------------------
(* Restricted physical memory limit: the OS facts and the pure parts *)

\* (size_t)UINTPTR_MAX, the "not computed yet" value of line 24, in 31 bits
UINTPTR_MAX == 2147483647

Threads == 1..NThreads

Min(a, b) == IF a < b THEN a ELSE b

LimitFlagNames ==
    {"JOB_OBJECT_LIMIT_JOB_MEMORY", "JOB_OBJECT_LIMIT_PROCESS_MEMORY",
     "JOB_OBJECT_LIMIT_WORKINGSET"}

\* a plausible slip at lines 282-287: the quota fields are read without
\* looking at LimitFlags
JobPhysicalMemoryLimitIgnoringFlags(os) ==
    Min(Min(Min(os.JobMemoryLimit, os.ProcessMemoryLimit), os.MaximumWorkingSetSize),
        os.ullTotalPhys)

\* lines 267-298: the three quotas, the smallest of those flagged, clamped to ullTotalPhys
JobPhysicalMemoryLimit(os) ==
    LET job_memory_limit ==
            IF "JOB_OBJECT_LIMIT_JOB_MEMORY" \in os.LimitFlags
            THEN os.JobMemoryLimit ELSE UINTPTR_MAX
        job_process_memory_limit ==
            IF "JOB_OBJECT_LIMIT_PROCESS_MEMORY" \in os.LimitFlags
            THEN os.ProcessMemoryLimit ELSE UINTPTR_MAX
        job_workingset_limit ==
            IF "JOB_OBJECT_LIMIT_WORKINGSET" \in os.LimitFlags
            THEN os.MaximumWorkingSetSize ELSE UINTPTR_MAX
    IN  Min(Min(Min(job_memory_limit, job_process_memory_limit), job_workingset_limit),
            os.ullTotalPhys)

\* a plausible slip at line 330: <= for <
LimitedByVirtualMemoryOrEqual(total_virtual, total_physical) ==
    total_virtual <= total_physical

\* line 330: is the process limited by its virtual address space
LimitedByVirtualMemory(total_virtual, total_physical) == total_virtual < total_physical

\* lines 316-330, all on locals: query the memory status when total_virtual
\* is still 0, take the job limit as total_physical, and pick the next line
VirtualMemoryCheck(l, os) ==
    LET queried == l.total_virtual = 0
        tv == IF queried THEN os.ullTotalVirtual ELSE l.total_virtual
        tp0 == IF queried THEN os.ullTotalPhys ELSE l.total_physical
        tp == IF l.job_physical_memory_limit # 0
              THEN l.job_physical_memory_limit ELSE tp0
    IN  [loc |-> [l EXCEPT !.total_virtual = tv, !.total_physical = tp,
                           !.queriedOs = l.queriedOs \/ queried],
         pc |-> IF LimitedByVirtualMemory(tv, tp)
                THEN (IF l.hinstKernel32 THEN "L336" ELSE "L339")
                ELSE "L343"]

\* uint64_t GCToOSInterface::GetPhysicalMemoryLimit(bool* is_restricted),
\* given what GetRestrictedPhysicalMemoryLimit returned
GetPhysicalMemoryLimit(restricted_limit, os) ==
    IF restricted_limit # 0
    THEN [limit |-> restricted_limit, is_restricted |-> TRUE]
    ELSE [limit |-> os.ullTotalPhys, is_restricted |-> FALSE]

\* the locals of GetRestrictedPhysicalMemoryLimit at entry (lines 231-238)
\* with what the model records about the call
NewLocals(cached) ==
    [job_physical_memory_limit |-> UINTPTR_MAX,
     total_virtual |-> 0,
     total_physical |-> 0,
     hinstKernel32 |-> FALSE,
     cachedAtEntry |-> cached,      \* line 228 found the limit cached
     queriedOs |-> FALSE,           \* the call asked the OS something
     wroteGlobals |-> FALSE]        \* the call wrote one of the three globals

NoLocals == NewLocals(FALSE)

\* a completed call: the value returned and GetPhysicalMemoryLimit's outputs
Completed(l, ret, os) ==
    [ret |-> ret,
     limit |-> GetPhysicalMemoryLimit(ret, os).limit,
     is_restricted |-> GetPhysicalMemoryLimit(ret, os).is_restricted,
     cachedAtEntry |-> l.cachedAtEntry,
     queriedOs |-> l.queriedOs,
     wroteGlobals |-> l.wroteGlobals]

-----------------------------------------------------------------------------
(* Restricted physical memory limit: one action per shared-memory access *)

\* a plausible slip at line 228: the cached value is not looked at and
\* every call computes again
EnterAlwaysComputes(t) ==
    /\ pc[t] = "idle"
    /\ Len(done[t]) < MaxCalls
    /\ loc' = [loc EXCEPT ![t] = NewLocals(g_RestrictedPhysicalMemoryLimit # UINTPTR_MAX)]
    /\ pc' = [pc EXCEPT ![t] = "L240"]
    /\ UNCHANGED <<memOs, g_RestrictedPhysicalMemoryLimit, g_UseRestrictedVirtualMemory,
                   GCGetProcessMemoryInfo, kernel32Refs, done, cpuVars, statusVars, vmVars, cacheVars, procVars>>

\* line 228: the cached-already test
Enter(t) ==
    /\ pc[t] = "idle"
    /\ Len(done[t]) < MaxCalls
    /\ loc' = [loc EXCEPT ![t] = NewLocals(g_RestrictedPhysicalMemoryLimit # UINTPTR_MAX)]
    /\ pc' = [pc EXCEPT ![t] = IF g_RestrictedPhysicalMemoryLimit # UINTPTR_MAX
                               THEN "L229" ELSE "L240"]
    /\ UNCHANGED <<memOs, g_RestrictedPhysicalMemoryLimit, g_UseRestrictedVirtualMemory,
                   GCGetProcessMemoryInfo, kernel32Refs, done, cpuVars, statusVars, vmVars, cacheVars, procVars>>

\* line 229: return g_RestrictedPhysicalMemoryLimit
ReturnCached(t) ==
    /\ pc[t] = "L229"
    /\ done' = [done EXCEPT ![t] =
                   Append(@, Completed(loc[t], g_RestrictedPhysicalMemoryLimit, memOs))]
    /\ pc' = [pc EXCEPT ![t] = "idle"]
    /\ loc' = [loc EXCEPT ![t] = NoLocals]
    /\ UNCHANGED <<memOs, g_RestrictedPhysicalMemoryLimit, g_UseRestrictedVirtualMemory,
                   GCGetProcessMemoryInfo, kernel32Refs, cpuVars, statusVars, vmVars, cacheVars, procVars>>

\* lines 240-251: LoadLibraryEx, GetProcAddress("IsProcessInJob"), IsProcessInJob
LoadKernel32(t) ==
    /\ pc[t] = "L240"
    /\ kernel32Refs' = IF memOs.loadLibrary THEN kernel32Refs + 1 ELSE kernel32Refs
    /\ loc' = [loc EXCEPT ![t].hinstKernel32 = memOs.loadLibrary, ![t].queriedOs = TRUE]
    /\ pc' = [pc EXCEPT ![t] =
                 IF /\ memOs.loadLibrary
                    /\ memOs.hasIsProcessInJob
                    /\ memOs.isProcessInJobOk
                    /\ memOs.in_job_p
                 THEN "L253" ELSE "L303"]
    /\ UNCHANGED <<memOs, g_RestrictedPhysicalMemoryLimit, g_UseRestrictedVirtualMemory,
                   GCGetProcessMemoryInfo, done, cpuVars, statusVars, vmVars, cacheVars, procVars>>

\* line 253: GCGetProcessMemoryInfo = GetProcAddress(.., "K32GetProcessMemoryInfo")
StoreProcAddress(t) ==
    /\ pc[t] = "L253"
    /\ GCGetProcessMemoryInfo' = memOs.hasGetProcessMemoryInfo
    /\ loc' = [loc EXCEPT ![t].wroteGlobals = TRUE]
    /\ pc' = [pc EXCEPT ![t] = "L255"]
    /\ UNCHANGED <<memOs, g_RestrictedPhysicalMemoryLimit, g_UseRestrictedVirtualMemory,
                   kernel32Refs, done, cpuVars, statusVars, vmVars, cacheVars, procVars>>

\* a plausible slip at lines 289-298: the limit is built up in the global
\* itself instead of in the local job_physical_memory_limit
QueryJobInGlobal(t) ==
    /\ pc[t] = "L255"
    /\ LET ok == /\ GCGetProcessMemoryInfo
                 /\ memOs.hasQueryInformationJobObject
                 /\ memOs.queryOk
       IN  /\ loc' = [loc EXCEPT ![t] =
                        IF ok
                        THEN [@ EXCEPT !.job_physical_memory_limit =
                                           JobPhysicalMemoryLimit(memOs),
                                       !.total_virtual = memOs.ullTotalVirtual,
                                       !.total_physical = memOs.ullAvailPhys]
                        ELSE @]
           /\ g_RestrictedPhysicalMemoryLimit' =
                 IF ok THEN JobPhysicalMemoryLimit(memOs)
                 ELSE g_RestrictedPhysicalMemoryLimit
    /\ pc' = [pc EXCEPT ![t] = "L303"]
    /\ UNCHANGED <<memOs, g_UseRestrictedVirtualMemory,
                   GCGetProcessMemoryInfo, kernel32Refs, done, cpuVars, statusVars, vmVars, cacheVars, procVars>>

\* lines 255-299: the test of the global just written, then
\* GetProcAddress("QueryInformationJobObject") and the job query
QueryJob(t) ==
    /\ pc[t] = "L255"
    /\ loc' = [loc EXCEPT ![t] =
                 IF /\ GCGetProcessMemoryInfo
                    /\ memOs.hasQueryInformationJobObject
                    /\ memOs.queryOk
                 THEN [@ EXCEPT !.job_physical_memory_limit = JobPhysicalMemoryLimit(memOs),
                                !.total_virtual = memOs.ullTotalVirtual,
                                !.total_physical = memOs.ullAvailPhys]
                 ELSE @]
    /\ pc' = [pc EXCEPT ![t] = "L303"]
    /\ UNCHANGED <<memOs, g_RestrictedPhysicalMemoryLimit, g_UseRestrictedVirtualMemory,
                   GCGetProcessMemoryInfo, kernel32Refs, done, cpuVars, statusVars, vmVars, cacheVars, procVars>>

\* a plausible slip at lines 303-307: the library is freed at exit: whenever
\* it was loaded, also when the job gave a limit
ExitLabelAlwaysFrees(t) ==
    /\ pc[t] = "L303"
    /\ IF loc[t].hinstKernel32
       THEN /\ kernel32Refs' = kernel32Refs - 1
            /\ loc' = [loc EXCEPT ![t].job_physical_memory_limit =
                                      IF @ = UINTPTR_MAX THEN 0 ELSE @,
                                  ![t].hinstKernel32 = FALSE]
            /\ pc' = [pc EXCEPT ![t] = "L311"]
       ELSE LET n == VirtualMemoryCheck(
                         [loc[t] EXCEPT !.job_physical_memory_limit = 0], memOs)
            IN  /\ loc' = [loc EXCEPT ![t] = n.loc]
                /\ pc' = [pc EXCEPT ![t] = n.pc]
                /\ UNCHANGED kernel32Refs
    /\ UNCHANGED <<memOs, g_RestrictedPhysicalMemoryLimit, g_UseRestrictedVirtualMemory,
                   GCGetProcessMemoryInfo, done, cpuVars, statusVars, vmVars, cacheVars, procVars>>

\* lines 303-310 (exit:), and lines 316-330 when the library is not freed here
ExitLabel(t) ==
    /\ pc[t] = "L303"
    /\ IF loc[t].job_physical_memory_limit = UINTPTR_MAX
       THEN IF loc[t].hinstKernel32
            THEN /\ kernel32Refs' = kernel32Refs - 1
                 /\ loc' = [loc EXCEPT ![t].job_physical_memory_limit = 0,
                                       ![t].hinstKernel32 = FALSE]
                 /\ pc' = [pc EXCEPT ![t] = "L311"]
            ELSE LET n == VirtualMemoryCheck(
                              [loc[t] EXCEPT !.job_physical_memory_limit = 0], memOs)
                 IN  /\ loc' = [loc EXCEPT ![t] = n.loc]
                     /\ pc' = [pc EXCEPT ![t] = n.pc]
                     /\ UNCHANGED kernel32Refs
       ELSE LET n == VirtualMemoryCheck(loc[t], memOs)
            IN  /\ loc' = [loc EXCEPT ![t] = n.loc]
                /\ pc' = [pc EXCEPT ![t] = n.pc]
                /\ UNCHANGED kernel32Refs
    /\ UNCHANGED <<memOs, g_RestrictedPhysicalMemoryLimit, g_UseRestrictedVirtualMemory,
                   GCGetProcessMemoryInfo, done, cpuVars, statusVars, vmVars, cacheVars, procVars>>

\* a plausible slip at line 311: the pointer is left as it is when the
\* library is freed
ClearProcAddressForgotten(t) ==
    /\ pc[t] = "L311"
    /\ LET n == VirtualMemoryCheck(loc[t], memOs)
       IN  /\ loc' = [loc EXCEPT ![t] = n.loc]
           /\ pc' = [pc EXCEPT ![t] = n.pc]
    /\ UNCHANGED <<memOs, g_RestrictedPhysicalMemoryLimit, g_UseRestrictedVirtualMemory,
                   GCGetProcessMemoryInfo, kernel32Refs, done, cpuVars, statusVars, vmVars, cacheVars, procVars>>

\* line 311: GCGetProcessMemoryInfo = 0, then lines 316-330
ClearProcAddress(t) ==
    /\ pc[t] = "L311"
    /\ GCGetProcessMemoryInfo' = FALSE
    /\ LET n == VirtualMemoryCheck([loc[t] EXCEPT !.wroteGlobals = TRUE], memOs)
       IN  /\ loc' = [loc EXCEPT ![t] = n.loc]
           /\ pc' = [pc EXCEPT ![t] = n.pc]
    /\ UNCHANGED <<memOs, g_RestrictedPhysicalMemoryLimit, g_UseRestrictedVirtualMemory,
                   kernel32Refs, done, cpuVars, statusVars, vmVars, cacheVars, procVars>>

\* line 336: FreeLibrary when limited by virtual memory
FreeForVirtual(t) ==
    /\ pc[t] = "L336"
    /\ kernel32Refs' = kernel32Refs - 1
    /\ pc' = [pc EXCEPT ![t] = "L337"]
    /\ UNCHANGED <<memOs, g_RestrictedPhysicalMemoryLimit, g_UseRestrictedVirtualMemory,
                   GCGetProcessMemoryInfo, loc, done, cpuVars, statusVars, vmVars, cacheVars, procVars>>

\* line 337: GCGetProcessMemoryInfo = 0
ClearForVirtual(t) ==
    /\ pc[t] = "L337"
    /\ GCGetProcessMemoryInfo' = FALSE
    /\ loc' = [loc EXCEPT ![t].wroteGlobals = TRUE]
    /\ pc' = [pc EXCEPT ![t] = "L339"]
    /\ UNCHANGED <<memOs, g_RestrictedPhysicalMemoryLimit, g_UseRestrictedVirtualMemory,
                   kernel32Refs, done, cpuVars, statusVars, vmVars, cacheVars, procVars>>

\* lines 339-340: g_UseRestrictedVirtualMemory = true, the limit becomes total_virtual
SetUseRestrictedVirtual(t) ==
    /\ pc[t] = "L339"
    /\ g_UseRestrictedVirtualMemory' = TRUE
    /\ loc' = [loc EXCEPT ![t].job_physical_memory_limit = loc[t].total_virtual,
                          ![t].wroteGlobals = TRUE]
    /\ pc' = [pc EXCEPT ![t] = "L343"]
    /\ UNCHANGED <<memOs, g_RestrictedPhysicalMemoryLimit, GCGetProcessMemoryInfo,
                   kernel32Refs, done, cpuVars, statusVars, vmVars, cacheVars, procVars>>

\* line 343: VolatileStore(&g_RestrictedPhysicalMemoryLimit, job_physical_memory_limit)
StoreLimit(t) ==
    /\ pc[t] = "L343"
    /\ g_RestrictedPhysicalMemoryLimit' = loc[t].job_physical_memory_limit
    /\ loc' = [loc EXCEPT ![t].wroteGlobals = TRUE]
    /\ pc' = [pc EXCEPT ![t] = "L344"]
    /\ UNCHANGED <<memOs, g_UseRestrictedVirtualMemory, GCGetProcessMemoryInfo,
                   kernel32Refs, done, cpuVars, statusVars, vmVars, cacheVars, procVars>>

\* line 344: return g_RestrictedPhysicalMemoryLimit
ReturnStored(t) ==
    /\ pc[t] = "L344"
    /\ done' = [done EXCEPT ![t] =
                   Append(@, Completed(loc[t], g_RestrictedPhysicalMemoryLimit, memOs))]
    /\ pc' = [pc EXCEPT ![t] = "idle"]
    /\ loc' = [loc EXCEPT ![t] = NoLocals]
    /\ UNCHANGED <<memOs, g_RestrictedPhysicalMemoryLimit, g_UseRestrictedVirtualMemory,
                   GCGetProcessMemoryInfo, kernel32Refs, cpuVars, statusVars, vmVars, cacheVars, procVars>>

Step(t) ==
    \/ Enter(t)
    \/ ReturnCached(t)
    \/ LoadKernel32(t)
    \/ StoreProcAddress(t)
    \/ QueryJob(t)
    \/ ExitLabel(t)
    \/ ClearProcAddress(t)
    \/ FreeForVirtual(t)
    \/ ClearForVirtual(t)
    \/ SetUseRestrictedVirtual(t)
    \/ StoreLimit(t)
    \/ ReturnStored(t)

-----------------------------------------------------------------------------
(* Restricted physical memory limit: initial states *)

\* the job detection going well, and each single way it can stop early
DetectOk ==
    [loadLibrary |-> TRUE, hasIsProcessInJob |-> TRUE, isProcessInJobOk |-> TRUE,
     in_job_p |-> TRUE, hasGetProcessMemoryInfo |-> TRUE,
     hasQueryInformationJobObject |-> TRUE, queryOk |-> TRUE]

DetectStops ==
    { [DetectOk EXCEPT !.loadLibrary = FALSE],
      [DetectOk EXCEPT !.hasIsProcessInJob = FALSE],
      [DetectOk EXCEPT !.isProcessInJobOk = FALSE],
      [DetectOk EXCEPT !.in_job_p = FALSE],
      [DetectOk EXCEPT !.hasGetProcessMemoryInfo = FALSE],
      [DetectOk EXCEPT !.hasQueryInformationJobObject = FALSE],
      [DetectOk EXCEPT !.queryOk = FALSE] }

MemOsOf(d, flags, jm, pm, ws, phys, avail, virt) ==
    [loadLibrary |-> d.loadLibrary,
     hasIsProcessInJob |-> d.hasIsProcessInJob,
     isProcessInJobOk |-> d.isProcessInJobOk,
     in_job_p |-> d.in_job_p,
     hasGetProcessMemoryInfo |-> d.hasGetProcessMemoryInfo,
     hasQueryInformationJobObject |-> d.hasQueryInformationJobObject,
     queryOk |-> d.queryOk,
     LimitFlags |-> flags,
     JobMemoryLimit |-> jm,
     ProcessMemoryLimit |-> pm,
     MaximumWorkingSetSize |-> ws,
     ullTotalPhys |-> phys,
     ullAvailPhys |-> avail,
     ullTotalVirtual |-> virt]

\* a quota that is flagged is a positive size; the field of one that is not
\* flagged holds anything
QuotaValues(flags, name) ==
    (IF name \in flags THEN 1..MaxMem ELSE 0..MaxMem) \cup {UINTPTR_MAX}

\* the globals as the loader leaves them (lines 22-28), every thread idle
MemStart ==
    /\ g_RestrictedPhysicalMemoryLimit = UINTPTR_MAX
    /\ g_UseRestrictedVirtualMemory = FALSE
    /\ GCGetProcessMemoryInfo = FALSE
    /\ kernel32Refs = 0
    /\ pc = [t \in Threads |-> "idle"]
    /\ loc = [t \in Threads |-> NoLocals]
    /\ done = [t \in Threads |-> <<>>]

\* every combination of quotas and sizes, for one thread at a time
LimitInit ==
    /\ MemStart
    /\ \E phys \in 1..MaxMem : \E avail \in {0, phys} : \E virt \in 1..MaxMem :
          \/ \E d \in DetectStops :
                memOs = MemOsOf(d, {}, 0, 0, 0, phys, avail, virt)
          \/ \E flags \in SUBSET LimitFlagNames :
             \E jm \in QuotaValues(flags, "JOB_OBJECT_LIMIT_JOB_MEMORY") :
             \E pm \in QuotaValues(flags, "JOB_OBJECT_LIMIT_PROCESS_MEMORY") :
             \E ws \in QuotaValues(flags, "JOB_OBJECT_LIMIT_WORKINGSET") :
                memOs = MemOsOf(DetectOk, flags, jm, pm, ws, phys, avail, virt)

\* the facts of SpecMem: every way the detection ends, no quota or a job
\* memory limit of any size, the most physical memory, any virtual address space
MemInit ==
    /\ MemStart
    /\ \E virt \in 1..MaxMem :
          \/ \E d \in DetectStops :
                memOs = MemOsOf(d, {}, 0, 0, 0, MaxMem, 1, virt)
          \/ \E flags \in {{}, {"JOB_OBJECT_LIMIT_JOB_MEMORY"}} :
             \E jm \in IF flags = {} THEN {0} ELSE (1..MaxMem) \cup {UINTPTR_MAX} :
                memOs = MemOsOf(DetectOk, flags, jm, 0, 0, MaxMem, 1, virt)

\* the memory part at rest, for the specifications of the processor groups
MemIdle ==
    /\ MemStart
    /\ memOs = MemOsOf(DetectOk, {}, 0, 0, 0, MaxMem, 1, MaxMem)

\* the processor-group part at rest, for the specifications of the memory limit
CpuIdle ==
    /\ CpuStart
    /\ cpuOs = NormalCpuOs(<<1>>, 1,
                           [affinityOk |-> TRUE, processAffinityMask |-> 1,
                            systemAffinityMask |-> 1],
                           [GCNumaAware |-> FALSE, numaOk |-> TRUE, highest |-> 1])

-----------------------------------------------------------------------------
(* Virtual memory: what the OS does with a request.  Addresses are page     *)
(* numbers 1..MaxPages, 0 is nullptr, sizes are counted in pages.           *)

nullptr == 0

Pages == 1..MaxPages

NUMA_NODE_UNDEFINED == -1

\* the OS's side of the virtual memory calls, as one record
VmState ==
    [pages |-> vmPages, watch |-> vmWatch, dirty |-> vmDirty, locked |-> vmLocked]

PageRange(address, size) == address..(address + size - 1)

\* the range lies inside one allocation
InOneAllocation(os, address, size) ==
    /\ address \in Pages
    /\ size >= 1
    /\ address + size - 1 <= MaxPages
    /\ os.pages[address].base # nullptr
    /\ \A p \in PageRange(address, size) : os.pages[p].base = os.pages[address].base

\* the bases at which size pages are free
FreeBases(os, size) ==
    {b \in Pages : /\ size >= 1
                   /\ b + size - 1 <= MaxPages
                   /\ \A p \in PageRange(b, size) : os.pages[p].state = "free"}

\* ::VirtualAlloc(nullptr, size, MEM_RESERVE [| MEM_WRITE_WATCH], ..): the OS
\* reserves the pages at the base it picked, or returns nullptr (base = nullptr)
OsReserve(os, size, watch, base) ==
    IF base = nullptr \/ base \notin FreeBases(os, size)
    THEN [ret |-> nullptr, os |-> os]
    ELSE [ret |-> base,
          os |-> [os EXCEPT
                    !.pages = [p \in Pages |->
                                  IF p \in PageRange(base, size)
                                  THEN [state |-> "reserved", base |-> base]
                                  ELSE os.pages[p]],
                    !.watch = IF watch THEN @ \cup {base} ELSE @]]

\* ::VirtualAlloc(address, size, MEM_COMMIT, ..) and ::VirtualAllocExNuma:
\* commits pages of one allocation when the OS has the memory to grant
OsCommit(os, address, size, granted) ==
    IF InOneAllocation(os, address, size) /\ granted
    THEN [ret |-> address,
          os |-> [os EXCEPT
                    !.pages = [p \in Pages |->
                                  IF p \in PageRange(address, size)
                                  THEN [os.pages[p] EXCEPT !.state = "committed"]
                                  ELSE os.pages[p]]]]
    ELSE [ret |-> nullptr, os |-> os]

\* ::VirtualAlloc(address, size, MEM_RESET, ..): succeeds on committed pages
\* and changes the state of none
OsReset(os, address, size) ==
    IF /\ InOneAllocation(os, address, size)
       /\ \A p \in PageRange(address, size) : os.pages[p].state = "committed"
    THEN [ret |-> address, os |-> os]
    ELSE [ret |-> nullptr, os |-> os]

\* ::VirtualFree(address, 0, MEM_RELEASE): address must be the base of an
\* allocation; the whole allocation is freed, committed pages included
OsRelease(os, address) ==
    IF address \in Pages /\ os.pages[address].base = address
    THEN LET gone == {p \in Pages : os.pages[p].base = address}
         IN  [ret |-> TRUE,
              os |-> [pages |-> [p \in Pages |->
                                    IF p \in gone
                                    THEN [state |-> "free", base |-> nullptr]
                                    ELSE os.pages[p]],
                      watch |-> os.watch \ {address},
                      dirty |-> os.dirty \ gone,
                      locked |-> os.locked \ gone]]
    ELSE [ret |-> FALSE, os |-> os]

\* ::VirtualFree(address, size, MEM_DECOMMIT): pages of one allocation go back
\* to reserved, whether they were committed or not
OsDecommit(os, address, size) ==
    IF InOneAllocation(os, address, size)
    THEN [ret |-> TRUE,
          os |-> [os EXCEPT
                    !.pages = [p \in Pages |->
                                  IF p \in PageRange(address, size)
                                  THEN [os.pages[p] EXCEPT !.state = "reserved"]
                                  ELSE os.pages[p]],
                    !.locked = @ \ PageRange(address, size)]]
    ELSE [ret |-> FALSE, os |-> os]

\* ::VirtualUnlock(address, size): fails when a page of the range is not locked
OsVirtualUnlock(os, address, size) ==
    IF size >= 1 /\ PageRange(address, size) \subseteq os.locked
    THEN [ret |-> TRUE, os |-> [os EXCEPT !.locked = @ \ PageRange(address, size)]]
    ELSE [ret |-> FALSE, os |-> os]

RECURSIVE Ascending(_)
\* the pages of S in ascending order
Ascending(S) ==
    IF S = {} THEN <<>>
    ELSE LET m == CHOOSE x \in S : \A y \in S : x <= y
         IN  <<m>> \o Ascending(S \ {m})

\* ::GetWriteWatch(flags, address, size, addresses, &count, &granularity):
\* 0 and the first count written pages of the range, in address order, when
\* the range lies in an allocation that has write watch; flag 1
\* (WRITE_WATCH_FLAG_RESET) forgets the pages it reports
OsGetWriteWatch(os, flags, address, size, count) ==
    IF InOneAllocation(os, address, size) /\ os.pages[address].base \in os.watch
    THEN LET all == Ascending(os.dirty \cap PageRange(address, size))
             n == IF Len(all) < count THEN Len(all) ELSE count
             reported == SubSeq(all, 1, n)
         IN  [ret |-> 0, addresses |-> reported, count |-> n,
              granularity |-> OS_PAGE_SIZE,
              os |-> IF flags = 1
                     THEN [os EXCEPT !.dirty = @ \ {reported[i] : i \in 1..n}]
                     ELSE os]
    ELSE [ret |-> 87, addresses |-> <<>>, count |-> count, granularity |-> 0, os |-> os]

\* ::ResetWriteWatch(address, size)
OsResetWriteWatch(os, address, size) ==
    IF InOneAllocation(os, address, size) /\ os.pages[address].base \in os.watch
    THEN [ret |-> 0, os |-> [os EXCEPT !.dirty = @ \ PageRange(address, size)]]
    ELSE [ret |-> 87, os |-> os]

-----------------------------------------------------------------------------
(* Virtual memory: the functions of GCToOSInterface *)

\* VirtualReserveFlags::WriteWatch
WriteWatch == 1

\* the two asserts of VirtualReserve: a power of two (or 0), at most 0x10000
AlignmentAccepted(alignment) == alignment \in {0} \cup {2^k : k \in 0..16}

\* void* VirtualReserve(size, alignment, flags); base is the OS's pick
VirtualReserve(os, size, alignment, flags, base) ==
    OsReserve(os, size, flags % 2 = WriteWatch, base)

\* bool VirtualRelease(address, size): size is not passed on
VirtualRelease(os, address, size) == OsRelease(os, address)

\* bool VirtualCommit(address, size, node): the NUMA call commits like the plain one
VirtualCommit(os, address, size, node, granted) ==
    LET r == OsCommit(os, address, size, granted)
    IN  [ret |-> r.ret # nullptr, os |-> r.os]

\* bool VirtualDecommit(address, size)
VirtualDecommit(os, address, size) == OsDecommit(os, address, size)

\* a plausible slip at line 638: the pages are decommitted instead of reset
VirtualResetDecommitting(os, address, size, unlock) ==
    LET r == OsReset(os, address, size)
    IN  [ret |-> r.ret # nullptr, unlockCalled |-> FALSE, unlockRet |-> FALSE,
         os |-> IF r.ret # nullptr THEN OsDecommit(os, address, size).os ELSE os]

\* bool VirtualReset(address, size, unlock): the value returned, whether
\* VirtualUnlock was called and what it returned
VirtualReset(os, address, size, unlock) ==
    LET r == OsReset(os, address, size)
        success == r.ret # nullptr
    IN  IF success /\ unlock
        THEN LET u == OsVirtualUnlock(r.os, address, size)
             IN  [ret |-> success, unlockCalled |-> TRUE, unlockRet |-> u.ret, os |-> u.os]
        ELSE [ret |-> success, unlockCalled |-> FALSE, unlockRet |-> FALSE, os |-> r.os]

\* void ResetWriteWatch(address, size)
ResetWriteWatch(os, address, size) == OsResetWriteWatch(os, address, size)

\* a plausible slip at line 681: the reset flag is never passed
GetWriteWatchNeverResetting(os, resetState, address, size, pageAddressesCount) ==
    LET r == OsGetWriteWatch(os, 0, address, size, pageAddressesCount)
    IN  [ret |-> r.ret = 0, asserted |-> r.ret = 0 /\ r.granularity # OS_PAGE_SIZE,
         pageAddresses |-> r.addresses, pageAddressesCount |-> r.count, os |-> r.os]

\* bool GetWriteWatch(resetState, address, size, pageAddresses, pageAddressesCount)
GetWriteWatch(os, resetState, address, size, pageAddressesCount) ==
    LET flags == IF resetState THEN 1 ELSE 0
        r == OsGetWriteWatch(os, flags, address, size, pageAddressesCount)
    IN  [ret |-> r.ret = 0, asserted |-> r.ret = 0 /\ r.granularity # OS_PAGE_SIZE,
         pageAddresses |-> r.addresses, pageAddressesCount |-> r.count, os |-> r.os]

-----------------------------------------------------------------------------
(* Virtual memory: the calls, and what else touches the pages *)

\* the OS's side after a call
VmBecomes(os) ==
    /\ vmPages' = os.pages
    /\ vmWatch' = os.watch
    /\ vmDirty' = os.dirty
    /\ vmLocked' = os.locked

\* every call record carries a sequence bit, so that two calls in a row differ
NextSeq == 1 - vmCall.seq

\* address and size of a call: any range of the address space
VmRanges == {r \in Pages \X (1..MaxPages) : r[1] + r[2] - 1 <= MaxPages}

CallVirtualReserve ==
    /\ initPc = "done"
    /\ \E size \in 1..MaxPages : \E alignment \in {0, 65536} : \E flags \in {0, WriteWatch} :
       \E base \in FreeBases(VmState, size) \cup {nullptr} :
          /\ AlignmentAccepted(alignment)
          /\ \E r \in {VirtualReserve(VmState, size, alignment, flags, base)} :
                /\ VmBecomes(r.os)
                /\ vmCall' = [op |-> "VirtualReserve", size |-> size, flags |-> flags,
                              ret |-> r.ret, seq |-> NextSeq]
    /\ UNCHANGED <<vmWritten, cpuVars, memVars, statusVars, cacheVars, procVars>>

CallVirtualRelease ==
    /\ initPc = "done"
    /\ \E a \in VmRanges :
       \E r \in {VirtualRelease(VmState, a[1], a[2])} :
          /\ VmBecomes(r.os)
          /\ vmWritten' = vmWritten \cap {p \in Pages : r.os.pages[p].state # "free"}
          /\ vmCall' = [op |-> "VirtualRelease", address |-> a[1], size |-> a[2],
                        ret |-> r.ret, seq |-> NextSeq,
                        \* noted for the properties: a page of the range was committed
                        wasCommitted |-> \E p \in PageRange(a[1], a[2]) :
                                            vmPages[p].state = "committed"]
    /\ UNCHANGED <<cpuVars, memVars, statusVars, cacheVars, procVars>>

\* a NUMA node is named only by callers that found CanEnableGCNumaAware()
CallVirtualCommit ==
    /\ initPc = "done"
    /\ \E a \in VmRanges : \E granted \in BOOLEAN :
       \E node \in {NUMA_NODE_UNDEFINED} \cup (IF g_fEnableGCNumaAware THEN {0} ELSE {}) :
       \E r \in {VirtualCommit(VmState, a[1], a[2], node, granted)} :
          /\ VmBecomes(r.os)
          /\ vmCall' = [op |-> "VirtualCommit", address |-> a[1], size |-> a[2],
                        granted |-> granted, ret |-> r.ret, seq |-> NextSeq]
    /\ UNCHANGED <<vmWritten, cpuVars, memVars, statusVars, cacheVars, procVars>>

CallVirtualDecommit ==
    /\ initPc = "done"
    /\ \E a \in VmRanges :
       \E r \in {VirtualDecommit(VmState, a[1], a[2])} :
          /\ VmBecomes(r.os)
          /\ vmCall' = [op |-> "VirtualDecommit", address |-> a[1], size |-> a[2],
                        ret |-> r.ret, seq |-> NextSeq]
    /\ UNCHANGED <<vmWritten, cpuVars, memVars, statusVars, cacheVars, procVars>>

CallVirtualReset ==
    /\ initPc = "done"
    /\ \E a \in VmRanges : \E unlock \in BOOLEAN :
       \E r \in {VirtualReset(VmState, a[1], a[2], unlock)} :
          /\ VmBecomes(r.os)
          /\ vmCall' = [op |-> "VirtualReset", address |-> a[1], size |-> a[2],
                        unlock |-> unlock, ret |-> r.ret,
                        unlockCalled |-> r.unlockCalled, unlockRet |-> r.unlockRet,
                        seq |-> NextSeq]
    /\ UNCHANGED <<vmWritten, cpuVars, memVars, statusVars, cacheVars, procVars>>

CallResetWriteWatch ==
    /\ initPc = "done"
    /\ \E a \in VmRanges :
       \E r \in {ResetWriteWatch(VmState, a[1], a[2])} :
          /\ VmBecomes(r.os)
          /\ vmWritten' = IF r.ret = 0 THEN vmWritten \ PageRange(a[1], a[2]) ELSE vmWritten
          /\ vmCall' = [op |-> "ResetWriteWatch", address |-> a[1], size |-> a[2],
                        seq |-> NextSeq]
    /\ UNCHANGED <<cpuVars, memVars, statusVars, cacheVars, procVars>>

\* pageAddressesCount comes in as the length of the caller's array: no room,
\* room for one page, room for every page
CallGetWriteWatch ==
    /\ initPc = "done"
    /\ \E a \in VmRanges : \E resetState \in BOOLEAN : \E capacity \in {0, 1, MaxPages} :
       \E r \in {GetWriteWatch(VmState, resetState, a[1], a[2], capacity)} :
          /\ VmBecomes(r.os)
          /\ vmWritten' = IF r.ret /\ resetState
                          THEN vmWritten \ {r.pageAddresses[i] : i \in 1..r.pageAddressesCount}
                          ELSE vmWritten
          /\ vmCall' = [op |-> "GetWriteWatch", resetState |-> resetState,
                        address |-> a[1], size |-> a[2], capacity |-> capacity,
                        ret |-> r.ret, asserted |-> r.asserted,
                        pageAddresses |-> r.pageAddresses,
                        pageAddressesCount |-> r.pageAddressesCount,
                        seq |-> NextSeq,
                        \* noted for the properties: the range was committed in one
                        \* allocation with write watch, and its pages written so far
                        watched |-> \A p \in PageRange(a[1], a[2]) :
                                       /\ vmPages[p].state = "committed"
                                       /\ vmPages[p].base = vmPages[a[1]].base
                                       /\ vmPages[p].base \in vmWatch,
                        written |-> vmWritten \cap PageRange(a[1], a[2])]
    /\ UNCHANGED <<cpuVars, memVars, statusVars, cacheVars, procVars>>

\* the program stores into a committed page; the OS notes it when the page's
\* allocation has write watch
WritePage ==
    /\ \E p \in Pages :
          /\ vmPages[p].state = "committed"
          /\ vmPages[p].base \in vmWatch
          /\ vmDirty' = vmDirty \cup {p}
          /\ vmWritten' = vmWritten \cup {p}
    /\ UNCHANGED <<vmPages, vmWatch, vmLocked, vmCall, cpuVars, memVars, statusVars, cacheVars, procVars>>

\* code outside this file locks a committed page (::VirtualLock)
LockPage ==
    /\ \E p \in Pages :
          /\ vmPages[p].state = "committed"
          /\ vmLocked' = vmLocked \cup {p}
    /\ UNCHANGED <<vmPages, vmWatch, vmDirty, vmWritten, vmCall,
                   cpuVars, memVars, statusVars, cacheVars, procVars>>

\* no page reserved, no call made
VmIdle ==
    /\ vmPages = [p \in Pages |-> [state |-> "free", base |-> nullptr]]
    /\ vmWatch = {}
    /\ vmDirty = {}
    /\ vmLocked = {}
    /\ vmWritten = {}
    /\ vmCall = [op |-> "none", seq |-> 0]

-----------------------------------------------------------------------------
(* Memory status: GetMemoryStatus *)

RECURSIVE FloatSpacing(_, _)
\* the distance between neighbouring floats at n: the least power of two s
\* with n / s below 2^24 (a float has a 24-bit significand)
FloatSpacing(n, s) == IF n \div s < 16777216 THEN s ELSE FloatSpacing(n, 2 * s)

\* (float)n for an unsigned n below 2^30: the nearest float, ties to the even
\* significand
ToFloat(n) ==
    LET s == FloatSpacing(n, 1)
        q == n \div s
        r == n % s
    IN  IF 2 * r < s THEN q * s
        ELSE IF 2 * r > s THEN (q + 1) * s
        ELSE IF q % 2 = 0 THEN q * s ELSE (q + 1) * s

\* (uint32_t)((float)part * 100.0 / (float)whole): the product and the quotient
\* are doubles, exact enough for the truncation at these sizes
FloatPercent(part, whole) == (ToFloat(part) * 100) \div ToFloat(whole)

\* a plausible slip at line 982: g_UseRestrictedVirtualMemory is not tested
\* and the working set is asked for under every limit
GetMemoryStatusAlwaysAsking(restricted_limit, useVirtual, procMemoryInfo, os, sos) ==
    LET asksWorkingSet == restricted_limit # 0
        status == asksWorkingSet /\ sos.pmcOk
        workingSetSize == sos.WorkingSetSize
        out == [nullCall |-> FALSE,
                asserted |-> FALSE,
                askedWorkingSet |-> asksWorkingSet,
                memory_load |-> 0, available_physical |-> 0, available_page_file |-> 0]
    IN  IF status
        THEN [out EXCEPT
                !.memory_load = FloatPercent(workingSetSize, restricted_limit),
                !.available_physical = IF workingSetSize > restricted_limit
                                       THEN 0 ELSE restricted_limit - workingSetSize,
                !.available_page_file = 0]
        ELSE IF useVirtual
        THEN [out EXCEPT
                !.memory_load = FloatPercent(os.ullTotalVirtual - sos.ullAvailVirtual,
                                             os.ullTotalVirtual),
                !.available_physical = os.ullTotalVirtual,
                !.available_page_file = 0]
        ELSE [out EXCEPT
                !.memory_load = sos.dwMemoryLoad,
                !.available_physical = os.ullAvailPhys,
                !.available_page_file = sos.ullAvailPageFile]

\* void GetMemoryStatus(memory_load*, available_physical*, available_page_file*)
\* from line 978 on, restricted_limit being what the call of line 977 returned
GetMemoryStatus(restricted_limit, useVirtual, procMemoryInfo, os, sos) ==
    LET asksWorkingSet == restricted_limit # 0 /\ ~useVirtual
        status == asksWorkingSet /\ procMemoryInfo /\ sos.pmcOk
        workingSetSize == sos.WorkingSetSize
        out == [nullCall |-> asksWorkingSet /\ ~procMemoryInfo,
                asserted |-> FALSE,
                askedWorkingSet |-> asksWorkingSet,
                memory_load |-> 0, available_physical |-> 0, available_page_file |-> 0]
    IN  IF out.nullCall THEN out
        ELSE IF status
        THEN [out EXCEPT
                !.memory_load = FloatPercent(workingSetSize, restricted_limit),
                !.available_physical = IF workingSetSize > restricted_limit
                                       THEN 0 ELSE restricted_limit - workingSetSize,
                !.available_page_file = 0]
        ELSE IF useVirtual
        THEN [out EXCEPT
                !.asserted = os.ullTotalVirtual # restricted_limit,
                !.memory_load = FloatPercent(os.ullTotalVirtual - sos.ullAvailVirtual,
                                             os.ullTotalVirtual),
                !.available_physical = os.ullTotalVirtual,
                !.available_page_file = 0]
        ELSE [out EXCEPT
                !.memory_load = sos.dwMemoryLoad,
                !.available_physical = os.ullAvailPhys,
                !.available_page_file = sos.ullAvailPageFile]

\* thread t calls GetMemoryStatus: the call of line 977 is the thread's last
\* completed call of the steps above, lines 978-1036 are this step
CallGetMemoryStatus(t) ==
    /\ pc[t] = "idle"
    /\ done[t] # <<>>
    /\ \E r \in {GetMemoryStatus(done[t][Len(done[t])].ret, g_UseRestrictedVirtualMemory,
                                 GCGetProcessMemoryInfo, memOs, statusOs)} :
          statusCall' = [op |-> "GetMemoryStatus",
                         restricted_limit |-> done[t][Len(done[t])].ret,
                         useVirtual |-> g_UseRestrictedVirtualMemory,
                         nullCall |-> r.nullCall, asserted |-> r.asserted,
                         askedWorkingSet |-> r.askedWorkingSet,
                         memory_load |-> r.memory_load,
                         available_physical |-> r.available_physical,
                         available_page_file |-> r.available_page_file]
    /\ UNCHANGED <<statusOs, memVars, cpuVars, vmVars, cacheVars, procVars>>

\* sizes in bytes, at and above 2^24, where a float no longer holds every integer
StatusPhys == 20000000
StatusJobLimits == {16777220, 20000000}
StatusVirtuals == {16777220, 1073741824}
StatusWorkingSets == {0, 16777219, 20000000}

\* SpecStatus: a job with a memory limit, a job with no quota set or no job,
\* the address space below or above the physical limit, and every answer to
\* the status queries
StatusInit ==
    /\ MemStart
    /\ \E virt \in StatusVirtuals :
          /\ \/ \E d \in DetectStops :
                   memOs = MemOsOf(d, {}, 0, 0, 0, StatusPhys, 5000000, virt)
             \/ \E jm \in StatusJobLimits :
                   memOs = MemOsOf(DetectOk, {"JOB_OBJECT_LIMIT_JOB_MEMORY"}, jm, 0, 0,
                                   StatusPhys, 5000000, virt)
             \/ memOs = MemOsOf(DetectOk, {}, 0, 0, 0, StatusPhys, 5000000, virt)
          /\ \E ok \in BOOLEAN : \E ws \in StatusWorkingSets :
             \E av \in {0, 1, virt} : \E load \in {0, 50, 100} : \E pf \in {0, 7} :
                statusOs = [pmcOk |-> ok, WorkingSetSize |-> ws, ullAvailVirtual |-> av,
                            dwMemoryLoad |-> load, ullAvailPageFile |-> pf]
    /\ statusCall = [op |-> "none"]

-----------------------------------------------------------------------------
(* Cache size: GetLPI, GetLogicalProcessorCacheSizeFromOS,                  *)
(* GetCacheSizePerLogicalCpu.  cpuid's registers that hold text are strings *)
(* of four characters, its bit fields are given already extracted.          *)

\* SYSTEM_LOGICAL_PROCESSOR_INFORMATION* GetLPI(PDWORD nEntries): the array
\* (<<>> with ok FALSE for NULL) and whether _ASSERTE(cbslpi) fired
GetLPI(os) ==
    IF ~os.lpiSizing.ret /\ os.lpiSizing.err # "ERROR_INSUFFICIENT_BUFFER"
    THEN [ok |-> FALSE, asserted |-> FALSE, pslpi |-> <<>>]
    ELSE IF os.lpiSizing.cbslpi = 0
    THEN [ok |-> FALSE, asserted |-> TRUE, pslpi |-> <<>>]
    ELSE IF ~os.lpiAlloc THEN [ok |-> FALSE, asserted |-> FALSE, pslpi |-> <<>>]
    ELSE IF ~os.lpiSecondCall THEN [ok |-> FALSE, asserted |-> FALSE, pslpi |-> <<>>]
    ELSE [ok |-> TRUE, asserted |-> FALSE, pslpi |-> os.lpiEntries]

RECURSIVE LastCacheSizeUpTo(_, _)
\* last_cache_size after the first i turns of the loop of lines 424-430
LastCacheSizeUpTo(pslpi, i) ==
    IF i = 0 THEN 0
    ELSE LET before == LastCacheSizeUpTo(pslpi, i - 1)
         IN  IF pslpi[i].Relationship = "RelationCache" /\ pslpi[i].CacheSize > before
             THEN pslpi[i].CacheSize ELSE before

\* size_t GetLogicalProcessorCacheSizeFromOS()
GetLogicalProcessorCacheSizeFromOS(os) ==
    LET lpi == GetLPI(os)
    IN  [asserted |-> lpi.asserted,
         cache_size |-> IF lpi.ok THEN LastCacheSizeUpTo(lpi.pslpi, Len(lpi.pslpi)) ELSE 0]

\* lines 755-807: maxTrueSize of an AuthenticAMD processor from cpuid leaves
\* 0x80000006, 0x1 and 0x80000008
AmdCacheSize(c) ==
    LET l2 == c.dwL2CacheBits16 * 1024
        dwFamily == IF c.dwBaseFamily >= 15 THEN c.dwBaseFamily + c.dwExtFamily
                    ELSE c.dwBaseFamily
        dwModel == IF c.dwBaseFamily >= 15 THEN c.dwExtModel * 16 + c.dwBaseModel
                   ELSE c.dwBaseModel
        bSkipAMDL3 == dwFamily = 16 /\ dwModel = 2
        dwNumberOfCores == c.NC + 1
        dwL3CacheSize == (c.dwL3CacheBits18 * 512 * 1024) \div dwNumberOfCores
    IN  IF dwFamily >= 16 /\ ~bSkipAMDL3 THEN l2 + dwL3CacheSize ELSE l2

\* size_t GetCacheSizePerLogicalCpu(bool trueSize): the value returned, the
\* statics it leaves, and what it queried
GetCacheSizePerLogicalCpu(os, maxSize0, maxTrueSize0, trueSize) ==
    IF maxSize0 # 0
    THEN [ret |-> IF trueSize THEN maxTrueSize0 ELSE maxSize0,
          maxSize |-> maxSize0, maxTrueSize |-> maxTrueSize0,
          cpuidQueried |-> FALSE, osQueried |-> FALSE, asserted |-> FALSE]
    ELSE
        LET x86 == os.arch \in {"AMD64", "X86"}
            c == os.cpuid
            intel == x86 /\ c.ebx = "Genu" /\ c.edx = "ineI" /\ c.ecx = "ntel"
            amd == x86 /\ c.ebx = "Auth" /\ c.edx = "enti" /\ c.ecx = "cAMD"
                       /\ c.maxExtendedLeaf >= 6
            asksOs == intel \/ ~x86
            fromOs == IF asksOs THEN GetLogicalProcessorCacheSizeFromOS(os)
                      ELSE [asserted |-> FALSE, cache_size |-> 0]
            true1 == IF asksOs THEN fromOs.cache_size
                     ELSE IF amd THEN AmdCacheSize(c) ELSE maxTrueSize0
            size1 == IF intel
                     THEN (IF os.arch = "AMD64" /\ c.maxCpuId >= 2 THEN true1 * 3 ELSE true1)
                     ELSE IF amd \/ ~x86 THEN true1 ELSE maxSize0
            size2 == IF os.arch = "ARM64" THEN true1 * 3 ELSE size1
        IN  [ret |-> IF trueSize THEN true1 ELSE size2,
             maxSize |-> size2, maxTrueSize |-> true1,
             cpuidQueried |-> x86, osQueried |-> asksOs, asserted |-> fromOs.asserted]

\* a caller asks GetCacheSizePerLogicalCpu(trueSize)
CallGetCacheSizePerLogicalCpu ==
    /\ \E trueSize \in BOOLEAN :
       \E r \in {GetCacheSizePerLogicalCpu(cacheOs, maxSize, maxTrueSize, trueSize)} :
          /\ maxSize' = r.maxSize
          /\ maxTrueSize' = r.maxTrueSize
          /\ cacheCall' = [op |-> "GetCacheSizePerLogicalCpu", trueSize |-> trueSize,
                           ret |-> r.ret, cpuidQueried |-> r.cpuidQueried,
                           osQueried |-> r.osQueried, asserted |-> r.asserted,
                           seq |-> 1 - cacheCall.seq,
                           \* noted for the properties: a call had returned before
                           later |-> cacheCall.op # "none"]
    /\ UNCHANGED <<cacheOs, cpuVars, memVars, statusVars, vmVars, procVars>>

\* what cpuid answers: an Intel processor, AMD processors with and without
\* leaf 0x80000006, and a vendor the function does not know
CpuidCases ==
    LET none == [ebx |-> "Hygo", edx |-> "nGen", ecx |-> "uine", maxCpuId |-> 2,
                 maxExtendedLeaf |-> 8, dwL2CacheBits16 |-> 512, dwL3CacheBits18 |-> 4,
                 dwBaseFamily |-> 15, dwExtFamily |-> 9, dwBaseModel |-> 0,
                 dwExtModel |-> 0, NC |-> 3]
    IN  {none}
        \cup {[none EXCEPT !.ebx = "Genu", !.edx = "ineI", !.ecx = "ntel", !.maxCpuId = m] :
                 m \in {1, 2}}
        \cup {[none EXCEPT !.ebx = "Auth", !.edx = "enti", !.ecx = "cAMD",
                           !.maxExtendedLeaf = x[1], !.dwL2CacheBits16 = x[2],
                           !.dwL3CacheBits18 = x[3], !.dwBaseFamily = x[4][1],
                           !.dwExtFamily = x[4][2], !.dwBaseModel = x[5]] :
                 x \in {5, 8} \X {0, 512} \X {0, 4} \X {<<6, 0>>, <<15, 1>>, <<15, 8>>}
                       \X {2, 4}}

\* what GetLogicalProcessorInformation answers: descriptors with and without
\* caches, and each way GetLPI fails
LpiCases ==
    LET cache(n) == [Relationship |-> "RelationCache", CacheSize |-> n]
        core == [Relationship |-> "RelationProcessorCore", CacheSize |-> 0]
        ok(e) == [lpiSizing |-> [ret |-> FALSE, err |-> "ERROR_INSUFFICIENT_BUFFER",
                                 cbslpi |-> Len(e)],
                  lpiAlloc |-> TRUE, lpiSecondCall |-> TRUE, lpiEntries |-> e]
        full == ok(<<cache(32768), cache(8388608), core, cache(262144)>>)
    IN  { full, ok(<<core>>),
          [full EXCEPT !.lpiSizing = [ret |-> FALSE, err |-> "ERROR_NOT_SUPPORTED",
                                      cbslpi |-> 0]],
          [full EXCEPT !.lpiAlloc = FALSE],
          [full EXCEPT !.lpiSecondCall = FALSE] }

\* SpecCache: every build target, every answer of cpuid and of the OS
CacheInit ==
    /\ \E arch \in {"AMD64", "X86", "ARM64", "ARM"} :
       \E c \in CpuidCases : \E l \in LpiCases :
          cacheOs = [arch |-> arch, cpuid |-> c, lpiSizing |-> l.lpiSizing,
                     lpiAlloc |-> l.lpiAlloc, lpiSecondCall |-> l.lpiSecondCall,
                     lpiEntries |-> l.lpiEntries]
    /\ maxSize = 0
    /\ maxTrueSize = 0
    /\ cacheCall = [op |-> "none", seq |-> 0]

-----------------------------------------------------------------------------
(* The process: GetCurrentProcessId, GetCurrentProcessCpuCount.  An        *)
(* affinity mask is a number of MaskBits bits.                              *)

\* the identifiers the OS hands out; a process and its threads never share one
Ids == 1..(NThreads + 1)

\* uint32_t GCToOSInterface::GetCurrentProcessId(), called by thread t:
\* what ::GetCurrentThreadId() returns to t
GetCurrentProcessId(os, t) == os.threadId[t]

RECURSIVE CountBits(_, _)
\* lines 910-914: while (pmask) { pmask &= (pmask - 1); count++; }
CountBits(pmask, count) ==
    IF pmask = 0 THEN count ELSE CountBits(BitAnd(pmask, pmask - 1), count + 1)

\* a plausible slip at lines 896-897: the static is not looked at and every
\* call counts again
GetCurrentProcessCpuCountUncached(os, cCPUs0) ==
    LET n == CountBits(BitAnd(os.processAffinityMask, os.systemAffinityMask), 0)
        count == IF ~os.affinityOk THEN 1
                 ELSE IF n = 0 \/ n > 64 THEN 64 ELSE n
    IN  [ret |-> count, cCPUs |-> count, queried |-> TRUE]

\* uint32_t GCToOSInterface::GetCurrentProcessCpuCount(): the value returned,
\* the static after the call, and whether the OS was asked
GetCurrentProcessCpuCount(os, cCPUs0) ==
    IF cCPUs0 # 0
    THEN [ret |-> cCPUs0, cCPUs |-> cCPUs0, queried |-> FALSE]
    ELSE LET n == CountBits(BitAnd(os.processAffinityMask, os.systemAffinityMask), 0)
             count == IF ~os.affinityOk THEN 1
                      ELSE IF n = 0 \/ n > 64 THEN 64 ELSE n
         IN  [ret |-> count, cCPUs |-> count, queried |-> TRUE]

\* thread t calls GetCurrentProcessId
CallGetCurrentProcessId(t) ==
    /\ pidCall' = [pidCall EXCEPT ![t] = GetCurrentProcessId(procOs, t)]
    /\ UNCHANGED <<procOs, cCPUs, cpuCountCall,
                   cpuVars, memVars, statusVars, vmVars, cacheVars>>

\* a call of GetCurrentProcessCpuCount; the record keeps the affinity the OS
\* would have reported when the first call was made
CallGetCurrentProcessCpuCount ==
    /\ \E r \in {GetCurrentProcessCpuCount(procOs, cCPUs)} :
          /\ cCPUs' = r.cCPUs
          /\ cpuCountCall' =
                [op |-> "GetCurrentProcessCpuCount",
                 ret |-> r.ret,
                 queried |-> r.queried,
                 calls |-> Min(cpuCountCall.calls + 1, MaxCalls),
                 first |-> IF cpuCountCall.calls = 0
                           THEN [affinityOk |-> procOs.affinityOk,
                                 processAffinityMask |-> procOs.processAffinityMask,
                                 systemAffinityMask |-> procOs.systemAffinityMask]
                           ELSE cpuCountCall.first]
    /\ UNCHANGED <<procOs, pidCall, cpuVars, memVars, statusVars, vmVars, cacheVars>>

\* the process affinity is changed between two calls (SetProcessAffinityMask,
\* by this process or another): to processors of the system, at least one
ChangeProcessAffinity ==
    /\ procOs.affinityOk
    /\ \E m \in 1..(2^MaskBits - 1) :
          /\ BitAnd(m, procOs.systemAffinityMask) = m
          /\ m # procOs.processAffinityMask
          /\ procOs' = [procOs EXCEPT !.processAffinityMask = m]
    /\ UNCHANGED <<cCPUs, pidCall, cpuCountCall,
                   cpuVars, memVars, statusVars, vmVars, cacheVars>>

\* what GetProcessAffinityMask can answer: failure; both masks 0 (a system of
\* more than 64 processors); or a process mask, not empty, within the system mask
AffinityAnswers ==
    { [affinityOk |-> FALSE, processAffinityMask |-> 0, systemAffinityMask |-> 0],
      [affinityOk |-> TRUE, processAffinityMask |-> 0, systemAffinityMask |-> 0] }
    \cup { [affinityOk |-> TRUE, processAffinityMask |-> p, systemAffinityMask |-> s] :
              <<p, s>> \in { x \in (1..(2^MaskBits - 1)) \X (1..(2^MaskBits - 1)) :
                                BitAnd(x[1], x[2]) = x[1] } }

\* nothing called yet
ProcStart ==
    /\ cCPUs = 0
    /\ pidCall = [t \in Threads |-> 0]
    /\ cpuCountCall = [op |-> "none", ret |-> 0, queried |-> FALSE, calls |-> 0,
                       first |-> [affinityOk |-> FALSE, processAffinityMask |-> 0,
                                  systemAffinityMask |-> 0]]

\* SpecProc: every assignment of distinct identifiers to the process and its
\* threads, every answer of GetProcessAffinityMask
ProcInit ==
    /\ ProcStart
    /\ \E pid \in Ids : \E tids \in [Threads -> Ids \ {pid}] : \E a \in AffinityAnswers :
          /\ \A t1, t2 \in Threads : t1 # t2 => tids[t1] # tids[t2]
          /\ procOs = [processId |-> pid, threadId |-> tids,
                       affinityOk |-> a.affinityOk,
                       processAffinityMask |-> a.processAffinityMask,
                       systemAffinityMask |-> a.systemAffinityMask]

\* the process part at rest
ProcIdle ==
    /\ ProcStart
    /\ procOs = [processId |-> NThreads + 1, threadId |-> [t \in Threads |-> t],
                 affinityOk |-> TRUE, processAffinityMask |-> 1, systemAffinityMask |-> 1]

\* the memory status part at rest
StatusIdle ==
    /\ statusOs = [pmcOk |-> TRUE, WorkingSetSize |-> 0, ullAvailVirtual |-> 0,
                   dwMemoryLoad |-> 0, ullAvailPageFile |-> 0]
    /\ statusCall = [op |-> "none"]

\* the cache size part at rest
CacheIdle ==
    /\ cacheOs = [arch |-> "ARM64"]
    /\ maxSize = 0
    /\ maxTrueSize = 0
    /\ cacheCall = [op |-> "none", seq |-> 0]

-----------------------------------------------------------------------------
(* Specifications *)

CpuNext ==
    \/ Initialize
    \/ CallGetTotalProcessorCount
    \/ CallGetGroupForProcessor

\* processor groups: every scenario of discovery on small topologies
InitCpu == CpuInit /\ MemIdle /\ StatusIdle /\ VmIdle /\ CacheIdle /\ ProcIdle

SpecCpu == InitCpu /\ [][CpuNext]_vars

WeightNext ==
    \/ Initialize
    \/ CallGetTotalProcessorCount

\* processor groups: successful discovery on topologies of up to
\* MaxWeightGroups groups of up to 64 processors
InitWeight == WeightInit /\ MemIdle /\ StatusIdle /\ VmIdle /\ CacheIdle /\ ProcIdle

SpecWeight == InitWeight /\ [][WeightNext]_vars

LimitNext == \E t \in {1} : Step(t)

\* the memory limit computed and read by one thread, over all OS facts
InitLimit == LimitInit /\ CpuIdle /\ StatusIdle /\ VmIdle /\ CacheIdle /\ ProcIdle

SpecLimit == InitLimit /\ [][LimitNext]_vars

MemNext == \E t \in Threads : Step(t)

\* the memory limit computed and read by NThreads threads in every interleaving
InitMem == MemInit /\ CpuIdle /\ StatusIdle /\ VmIdle /\ CacheIdle /\ ProcIdle

SpecMem == InitMem /\ [][MemNext]_vars

StatusNext == \E t \in {1} : Step(t) \/ CallGetMemoryStatus(t)

\* the memory status asked by one thread, after it computed or read the limit
InitStatus == StatusInit /\ CpuIdle /\ VmIdle /\ CacheIdle /\ ProcIdle

SpecStatus == InitStatus /\ [][StatusNext]_vars

RaceNext == \E t \in Threads : Step(t) \/ CallGetMemoryStatus(t)

\* the memory limit and the memory status asked by NThreads threads in every
\* interleaving, from the states of SpecMem
InitRace == MemInit /\ StatusIdle /\ CpuIdle /\ VmIdle /\ CacheIdle /\ ProcIdle

SpecRace == InitRace /\ [][RaceNext]_vars

CacheNext == CallGetCacheSizePerLogicalCpu

\* the cache size asked any number of times
InitCache == CacheInit /\ CpuIdle /\ MemIdle /\ StatusIdle /\ VmIdle /\ ProcIdle

SpecCache == InitCache /\ [][CacheNext]_vars

VmNext ==
    \/ Initialize
    \/ CallVirtualReserve
    \/ CallVirtualRelease
    \/ CallVirtualCommit
    \/ CallVirtualDecommit
    \/ CallVirtualReset
    \/ LockPage

WatchNext ==
    \/ Initialize
    \/ CallVirtualReserve
    \/ CallVirtualCommit
    \/ CallResetWriteWatch
    \/ CallGetWriteWatch
    \/ WritePage

\* the machines on which the virtual memory calls are made: NUMA awareness
\* configured or not
VmCpuInit ==
    /\ CpuStart
    /\ \E numa \in NumaCases :
          cpuOs = NormalCpuOs(<<1>>, 1,
                              [affinityOk |-> TRUE, processAffinityMask |-> 1,
                               systemAffinityMask |-> 1], numa)

\* virtual memory: every sequence of the calls that reserve, commit, decommit,
\* reset and release, over an address space of MaxPages pages
InitVm == VmCpuInit /\ VmIdle /\ MemIdle /\ StatusIdle /\ CacheIdle /\ ProcIdle

SpecVm == InitVm /\ [][VmNext]_vars

\* write watch: every sequence of reserving, committing, writing and querying
InitWatch == VmCpuInit /\ VmIdle /\ MemIdle /\ StatusIdle /\ CacheIdle /\ ProcIdle

SpecWatch == InitWatch /\ [][WatchNext]_vars

ProcNext ==
    \/ \E t \in Threads : CallGetCurrentProcessId(t)
    \/ CallGetCurrentProcessCpuCount
    \/ ChangeProcessAffinity

\* the process: its identifier and its processor count asked any number of
\* times, the affinity changing in between
InitProc == ProcInit /\ CpuIdle /\ MemIdle /\ StatusIdle /\ VmIdle /\ CacheIdle

SpecProc == InitProc /\ [][ProcNext]_vars

-----------------------------------------------------------------------------
(* Processor groups: properties *)

\* what the OS reported, read off the answers rather than off the statics
EnumerationSucceeded ==
    /\ ~(cpuOs.sizing.ret /\ cpuOs.sizing.err # "ERROR_INSUFFICIENT_BUFFER")
    /\ cpuOs.sizing.cbSLPIEx > 0
    /\ cpuOs.allocBuffer
    /\ cpuOs.secondCall
    /\ cpuOs.allocArray
    /\ \E k \in DOMAIN cpuOs.buffer : cpuOs.buffer[k].Relationship = "RelationGroup"

ReportedGroupInfo ==
    LET k == CHOOSE j \in DOMAIN cpuOs.buffer :
                 /\ cpuOs.buffer[j].Relationship = "RelationGroup"
                 /\ \A h \in 1..(j - 1) : cpuOs.buffer[h].Relationship # "RelationGroup"
    IN  cpuOs.buffer[k].GroupInfo

\* the processors of the machine as (group, processor within the group) pairs
ProcessorsOfArray ==
    {<<g, k>> : g \in 1..g_nGroups, k \in 1..MaxActive} \cap
    {p \in (1..g_nGroups) \X (1..MaxActive) : p[2] <= g_CPUGroupInfoArray[p[1]].nr_active}

GroupsHolding(i) ==
    {g \in 1..g_nGroups :
        g_CPUGroupInfoArray[g].begin <= i /\ i <= g_CPUGroupInfoArray[g].end}

C8_TotalIsSumOfActive ==
    (initPc = "done" /\ g_fEnableGCCPUGroups) =>
        /\ g_nGroups = Len(g_CPUGroupInfoArray)
        /\ g_nProcessors = Cardinality(ProcessorsOfArray)
        /\ cpuCall.op = "GetTotalProcessorCount" =>
              cpuCall.result = Cardinality(ProcessorsOfArray)

\* C8 witness: the count was asked for on a machine with groups of different sizes
C8_Witness ==
    /\ initPc = "done"
    /\ g_fEnableGCCPUGroups
    /\ cpuCall.op = "GetTotalProcessorCount"
    /\ g_nGroups = MaxGroups
    /\ g_CPUGroupInfoArray[1].nr_active # g_CPUGroupInfoArray[2].nr_active
    /\ cpuCall.result # g_SystemInfo.dwNumberOfProcessors

\* C9: after Initialize, CanEnableGCCPUGroups() is true only if GCCpuGroup is
\* configured, the enumeration succeeded and it reported more than one group;
\* when it is false GetTotalProcessorCount() returns dwNumberOfProcessors.
C9_GroupsEnabledOnlyWhenSeveral ==
    initPc = "done" =>
        /\ g_fEnableGCCPUGroups =>
              /\ cpuOs.GCCpuGroup
              /\ EnumerationSucceeded
              /\ Len(ReportedGroupInfo) > 1
        /\ (~g_fEnableGCCPUGroups /\ cpuCall.op = "GetTotalProcessorCount") =>
              cpuCall.result = cpuOs.systemInfo.dwNumberOfProcessors

\* C9 witness: discovery succeeded, reported one group of several processors,
\* groups stayed disabled and the count was asked for
C9_Witness ==
    /\ initPc = "done"
    /\ cpuOs.GCCpuGroup
    /\ EnumerationSucceeded
    /\ Len(ReportedGroupInfo) = 1
    /\ ~g_fEnableGCCPUGroups
    /\ cpuCall.op = "GetTotalProcessorCount"
    /\ cpuCall.result = g_nProcessors
    /\ cpuCall.result > 1

\* a failure during processor-group discovery, as C10 lists them
DiscoveryFailed ==
    /\ cpuOs.GCCpuGroup
    /\ \/ cpuOs.sizing.err # "ERROR_INSUFFICIENT_BUFFER"
       \/ cpuOs.sizing.cbSLPIEx = 0
       \/ ~cpuOs.allocBuffer
       \/ ~cpuOs.secondCall
       \/ ~cpuOs.allocArray
       \/ \A k \in DOMAIN cpuOs.buffer : cpuOs.buffer[k].Relationship # "RelationGroup"

\* C10: every failure during processor-group discovery ends with Initialize
\* returning normally and CanEnableGCCPUGroups() false: no assertion failure,
\* no out-of-bounds read.
C10_DiscoveryFailureDegrades ==
    (DiscoveryFailed /\ initPc # "start") =>
        (initPc = "done" /\ ~g_fEnableGCCPUGroups)

\* the exact least common multiple of the nr_active values, in 64 bits
RECURSIVE ExactLcmUpTo(_)
ExactLcmUpTo(i) ==
    IF i = 0 THEN BigOf(1)
    ELSE LET n == g_CPUGroupInfoArray[i].nr_active
             l == ExactLcmUpTo(i - 1)
         IN  BigMul(BigDivMod(l, GCDLoop(n, BigDivMod(l, n).rem)).quot, n)

\* C7: after InitCPUGroupInfoArray succeeds on groups of 1 to 64 active
\* processors, groupWeight * nr_active is, for every group, exactly the least
\* common multiple of all nr_active values, and activeThreadWeight is 0.
C7_WeightTimesActiveIsLcm ==
    (initPc = "done" /\ cpuOs.GCCpuGroup /\ EnumerationSucceeded) =>
        \A g \in 1..g_nGroups :
            /\ BigMul(g_CPUGroupInfoArray[g].groupWeight, g_CPUGroupInfoArray[g].nr_active)
                  = ExactLcmUpTo(g_nGroups)
            /\ g_CPUGroupInfoArray[g].activeThreadWeight = 0

\* the processors on which the process may run: the bits set in both the
\* process and the system affinity mask
AffinityProcessors ==
    {b \in 0..3 : (cpuOs.processAffinityMask \div (2^b)) % 2 = 1
                  /\ (cpuOs.systemAffinityMask \div (2^b)) % 2 = 1}

\* C11: once Initialize has returned, g_fHadSingleProcessorAtStartup is true
\* exactly when GetProcessAffinityMask succeeded and the process affinity mask
\* and the system affinity mask have exactly one bit in common, whatever path
\* InitCPUGroupInfo took (groups configured off, discovery failed, or not)
C11_SingleProcessorDetectedOnEveryPath ==
    initPc = "done" =>
        (g_fHadSingleProcessorAtStartup <=>
            (cpuOs.affinityOk /\ Cardinality(AffinityProcessors) = 1))

-----------------------------------------------------------------------------
(* Restricted physical memory limit: properties *)

\* the job detection ran to the end: in a job, and the job query succeeded
JobQueried ==
    /\ memOs.loadLibrary
    /\ memOs.hasIsProcessInJob
    /\ memOs.isProcessInJobOk
    /\ memOs.in_job_p
    /\ memOs.hasGetProcessMemoryInfo
    /\ memOs.hasQueryInformationJobObject
    /\ memOs.queryOk

\* the sizes of the quotas that are flagged as set
SetQuotas ==
    {memOs.JobMemoryLimit : f \in memOs.LimitFlags \cap {"JOB_OBJECT_LIMIT_JOB_MEMORY"}}
    \cup {memOs.ProcessMemoryLimit :
              f \in memOs.LimitFlags \cap {"JOB_OBJECT_LIMIT_PROCESS_MEMORY"}}
    \cup {memOs.MaximumWorkingSetSize :
              f \in memOs.LimitFlags \cap {"JOB_OBJECT_LIMIT_WORKINGSET"}}

Least(S) == CHOOSE m \in S : \A x \in S : m <= x

\* the job-derived limit: 0 without a queried job, else the least set quota
\* clamped to the machine's physical memory
JobDerivedLimit ==
    IF JobQueried THEN Least(SetQuotas \cup {memOs.ullTotalPhys}) ELSE 0

\* the physical capacity the virtual address space is compared with
PhysicalCapacity ==
    IF JobDerivedLimit # 0 THEN JobDerivedLimit ELSE memOs.ullTotalPhys

\* the fully computed limit
FinalLimit ==
    IF memOs.ullTotalVirtual < PhysicalCapacity
    THEN memOs.ullTotalVirtual ELSE JobDerivedLimit

CompletedCalls == {<<t, k>> \in Threads \X (1..MaxCalls) : k <= Len(done[t])}

\* C1: with the OS facts fixed, in every interleaving of the threads, every
\* call of GetRestrictedPhysicalMemoryLimit returns the same value, the fully
\* computed limit: never the sentinel, never a value from part-way through.
C1_EveryCallReturnsFinalLimit ==
    \A c \in CompletedCalls :
        /\ done[c[1]][c[2]].ret = FinalLimit
        /\ done[c[1]][c[2]].ret # UINTPTR_MAX

\* C1 witness: two threads both found the sentinel, both computed, both
\* returned, and the limit went through a different value on the way
C1_Witness ==
    \E t1, t2 \in Threads :
        /\ t1 # t2
        /\ done[t1] # <<>> /\ ~done[t1][1].cachedAtEntry
        /\ done[t2] # <<>> /\ ~done[t2][1].cachedAtEntry
        /\ g_UseRestrictedVirtualMemory
        /\ JobDerivedLimit # FinalLimit

\* what C2 asks of one step
C2_Step ==
    /\ g_RestrictedPhysicalMemoryLimit # UINTPTR_MAX =>
          g_RestrictedPhysicalMemoryLimit' = g_RestrictedPhysicalMemoryLimit
    /\ g_RestrictedPhysicalMemoryLimit' # g_RestrictedPhysicalMemoryLimit =>
          g_RestrictedPhysicalMemoryLimit' # UINTPTR_MAX
    /\ \A t \in Threads :
          (Len(done'[t]) > Len(done[t]) /\ done'[t][Len(done'[t])].cachedAtEntry) =>
              /\ done'[t][Len(done'[t])].ret = g_RestrictedPhysicalMemoryLimit
              /\ ~done'[t][Len(done'[t])].queriedOs
              /\ ~done'[t][Len(done'[t])].wroteGlobals

\* C2: once g_RestrictedPhysicalMemoryLimit is not the sentinel it never
\* changes; a call that starts after that returns it without asking the OS
\* and without writing a global; the value stored is never the sentinel.
C2_PublishedOnceThenCached == [][C2_Step]_vars

\* C2 witness: a call that found the limit cached has returned while another
\* thread, which started before the limit was published, is about to store
C2_Witness ==
    \E t1, t2 \in Threads :
        /\ done[t1] # <<>> /\ done[t1][Len(done[t1])].cachedAtEntry
        /\ pc[t2] = "L343"
        /\ g_RestrictedPhysicalMemoryLimit # UINTPTR_MAX

\* C3: in a job whose query succeeds with at least one quota flagged, and a
\* virtual address space not below the result, GetPhysicalMemoryLimit returns
\* the least flagged quota clamped to the physical memory, is_restricted true;
\* the field of a quota that is not flagged never lowers it.
C3_LeastSetQuotaClamped ==
    (JobQueried /\ SetQuotas # {}
        /\ memOs.ullTotalVirtual >= Least(SetQuotas \cup {memOs.ullTotalPhys})) =>
        \A c \in CompletedCalls :
            /\ done[c[1]][c[2]].limit = Least(SetQuotas \cup {memOs.ullTotalPhys})
            /\ done[c[1]][c[2]].is_restricted

\* C3 witness: one quota flagged, the field of an unflagged one holds less,
\* and the call returned
C3_Witness ==
    /\ JobQueried
    /\ memOs.LimitFlags = {"JOB_OBJECT_LIMIT_PROCESS_MEMORY"}
    /\ memOs.JobMemoryLimit < memOs.ProcessMemoryLimit
    /\ memOs.ProcessMemoryLimit < memOs.ullTotalPhys
    /\ memOs.ullTotalVirtual >= memOs.ProcessMemoryLimit
    /\ done[1] # <<>>
    /\ done[1][1].limit = memOs.ProcessMemoryLimit
    /\ done[1][1].is_restricted

C5_NoJobMeansUnrestricted ==
    (~JobQueried /\ memOs.ullTotalVirtual >= memOs.ullTotalPhys) =>
        \A c \in CompletedCalls :
            /\ done[c[1]][c[2]].ret = 0
            /\ done[c[1]][c[2]].limit = memOs.ullTotalPhys
            /\ ~done[c[1]][c[2]].is_restricted
            /\ (\A t \in Threads : pc[t] = "idle") => ~GCGetProcessMemoryInfo

\* C5 witness: QueryInformationJobObject could not be resolved after
\* GCGetProcessMemoryInfo had been set, and the call returned
C5_Witness ==
    /\ ~memOs.hasQueryInformationJobObject
    /\ memOs.ullTotalVirtual >= memOs.ullTotalPhys
    /\ done[1] # <<>>
    /\ done[1][1].wroteGlobals
    /\ pc[1] = "idle"

-----------------------------------------------------------------------------
(* Virtual memory: properties *)

\* the pages of the region reserved at base b
RegionOf(b) == {p \in Pages : vmPages[p].base = b}

\* the call made in this step is over exactly the region reserved at its address
OverWholeRegion(c) ==
    /\ vmPages[c.address].base = c.address
    /\ PageRange(c.address, c.size) = RegionOf(c.address)

\* the call made in this step is over pages that are all free (released)
OverReleased(c) == \A p \in PageRange(c.address, c.size) : vmPages[p].state = "free"

LifecycleOps == {"VirtualCommit", "VirtualDecommit", "VirtualReset", "VirtualRelease"}

C12_Step ==
    LET c == vmCall'
    IN  (c.seq # vmCall.seq /\ c.op \in LifecycleOps) =>
          /\ (c.op = "VirtualCommit" /\ OverWholeRegion(c) /\ c.granted) =>
                /\ c.ret
                /\ \A p \in PageRange(c.address, c.size) : vmPages'[p].state = "committed"
          /\ (c.op = "VirtualDecommit" /\ OverWholeRegion(c)) =>
                /\ c.ret
                /\ \A p \in PageRange(c.address, c.size) : vmPages'[p].state = "reserved"
          /\ (c.op = "VirtualRelease" /\ OverWholeRegion(c) /\ ~c.wasCommitted) =>
                /\ c.ret
                /\ \A p \in PageRange(c.address, c.size) : vmPages'[p].state = "free"
          /\ (c.op = "VirtualReset" /\ OverWholeRegion(c)
                /\ \A p \in PageRange(c.address, c.size) : vmPages[p].state = "committed") =>
                /\ c.ret
                /\ \A p \in PageRange(c.address, c.size) : vmPages'[p].state = "committed"
          /\ OverReleased(c) =>
                /\ ~c.ret
                /\ \A p \in PageRange(c.address, c.size) : vmPages'[p].state = "free"

\* C12: over a region obtained from VirtualReserve, VirtualCommit (the OS having
\* the memory), VirtualDecommit and then VirtualRelease each succeed and move
\* the region to committed, reserved and released; VirtualReset on a committed
\* region succeeds and leaves it committed; on a released range each of the
\* four calls fails and leaves the range released
C12_RegionLifecycle == [][C12_Step]_vars

\* VirtualReset has just succeeded over a whole committed region, still committed
C12_Witness ==
    /\ vmCall.op = "VirtualReset"
    /\ vmCall.ret
    /\ vmPages[vmCall.address].base = vmCall.address
    /\ PageRange(vmCall.address, vmCall.size) = RegionOf(vmCall.address)
    /\ \A p \in PageRange(vmCall.address, vmCall.size) : vmPages[p].state = "committed"

\* C13: VirtualRelease called on a range that holds a committed page does not
\* succeed; the caller has to VirtualDecommit first
C13_ReleaseOfCommittedRejected ==
    (vmCall.op = "VirtualRelease" /\ vmCall.wasCommitted) => ~vmCall.ret

\* C18: VirtualReset returns true only when the reset succeeded and, unlock
\* being asked for, VirtualUnlock succeeded too; VirtualUnlock is called only
\* after a successful reset with unlock asked for
C18_ResetReportsUnlockFailure ==
    vmCall.op = "VirtualReset" =>
        /\ vmCall.unlockCalled => vmCall.unlock
        /\ (vmCall.unlock /\ vmCall.unlockCalled /\ ~vmCall.unlockRet) => ~vmCall.ret
        /\ (vmCall.ret /\ vmCall.unlock) => (vmCall.unlockCalled /\ vmCall.unlockRet)

\* a GetWriteWatch call over committed pages of an allocation with write watch
WatchedQuery == vmCall.op = "GetWriteWatch" /\ vmCall.watched

\* the call reported exactly the pages written since their last reset
ReportedExactlyWritten ==
    /\ vmCall.ret
    /\ ~vmCall.asserted
    /\ vmCall.pageAddressesCount = Cardinality(vmCall.written)
    /\ {vmCall.pageAddresses[i] : i \in 1..vmCall.pageAddressesCount} = vmCall.written

\* C14 as stated: every GetWriteWatch over a committed range with write watch
\* returns exactly the pages written since the last reset; resetState = true
\* clears them, resetState = false leaves them
C14_ReturnsExactlyWrittenPages == WatchedQuery => ReportedExactlyWritten

\* C14, amended: the same, when the caller's array has room for every written
\* page of the range
C14_ReturnsWrittenPagesThatFit ==
    (WatchedQuery /\ vmCall.capacity >= Cardinality(vmCall.written)) =>
        ReportedExactlyWritten

\* a resetting query reported a written page, and the log is empty after it
C14_Witness ==
    /\ WatchedQuery
    /\ vmCall.resetState
    /\ vmCall.written # {}
    /\ vmCall.capacity >= Cardinality(vmCall.written)
    /\ vmDirty \cap PageRange(vmCall.address, vmCall.size) = {}

-----------------------------------------------------------------------------
(* Memory status: properties *)

StatusReported == statusCall.op = "GetMemoryStatus" /\ ~statusCall.nullCall

C16_VirtualConstrainedStatus ==
    (StatusReported /\ statusCall.useVirtual) =>
        /\ statusCall.memory_load =
              ((memOs.ullTotalVirtual - statusOs.ullAvailVirtual) * 100)
                  \div memOs.ullTotalVirtual
        /\ statusCall.available_physical = statusOs.ullAvailVirtual
        /\ statusCall.available_page_file = 0
        /\ ~statusCall.askedWorkingSet

\* C17: in every regime the memory_load written is between 0 and 100
C17_MemoryLoadIsPercentage ==
    StatusReported => (statusCall.memory_load >= 0 /\ statusCall.memory_load <= 100)

\* the last GetMemoryStatus asked for the working set through a pointer that
\* was set and, the query succeeding, reported what is left of the limit
WorkingSetRegime ==
    /\ statusCall.askedWorkingSet
    /\ ~statusCall.nullCall
    /\ statusOs.pmcOk =>
          /\ statusCall.available_physical =
                (IF statusOs.WorkingSetSize > statusCall.restricted_limit THEN 0
                 ELSE statusCall.restricted_limit - statusOs.WorkingSetSize)
          /\ statusCall.available_page_file = 0

\* a job whose query succeeds with no quota flagged: the limit published and
\* returned is min(total physical, total virtual), not 0, is_restricted true
NoQuotaLimit ==
    /\ g_RestrictedPhysicalMemoryLimit # UINTPTR_MAX =>
          g_RestrictedPhysicalMemoryLimit = Min(memOs.ullTotalPhys, memOs.ullTotalVirtual)
    /\ \A c \in CompletedCalls :
          /\ done[c[1]][c[2]].ret = Min(memOs.ullTotalPhys, memOs.ullTotalVirtual)
          /\ done[c[1]][c[2]].ret # 0
          /\ done[c[1]][c[2]].limit = done[c[1]][c[2]].ret
          /\ done[c[1]][c[2]].is_restricted

JobLimitVisible ==
    /\ g_RestrictedPhysicalMemoryLimit # UINTPTR_MAX
    /\ g_RestrictedPhysicalMemoryLimit # 0
    /\ ~g_UseRestrictedVirtualMemory

\* what C23 asks of one step
C23_Step ==
    /\ JobLimitVisible' => (GCGetProcessMemoryInfo' /\ kernel32Refs' > 0)
    /\ \A t \in Threads :
          (done'[t] # <<>> /\ done'[t][Len(done'[t])].ret # 0
              /\ ~g_UseRestrictedVirtualMemory') =>
              (GCGetProcessMemoryInfo' /\ kernel32Refs' > 0)
    /\ statusCall'.op = "GetMemoryStatus" => ~statusCall'.nullCall
    /\ g_RestrictedPhysicalMemoryLimit # UINTPTR_MAX =>
          g_UseRestrictedVirtualMemory' = g_UseRestrictedVirtualMemory

\* C23: in every interleaving of first callers of
\* GetRestrictedPhysicalMemoryLimit and callers of GetMemoryStatus, while a
\* thread has seen a limit that is not 0 and g_UseRestrictedVirtualMemory is
\* false, GCGetProcessMemoryInfo is not null and kernel32 is loaded, so
\* GetMemoryStatus never calls through a null pointer; and
\* g_UseRestrictedVirtualMemory no longer changes once the limit is visible
C23_PointerLiveWhileJobLimitVisible == [][C23_Step]_vars

\* C23 witness: GetMemoryStatus has asked for the working set through the
\* pointer while another first caller, which loaded kernel32 itself, has not
\* yet passed exit:
C23_Witness ==
    /\ statusCall.op = "GetMemoryStatus"
    /\ statusCall.askedWorkingSet
    /\ ~statusCall.nullCall
    /\ \E t \in Threads : pc[t] \in {"L253", "L255", "L303"} /\ loc[t].hinstKernel32

-----------------------------------------------------------------------------
(* Cache size: properties *)

\* the largest cache among the descriptors the OS enumerates, 0 when the
\* enumeration fails or holds no cache
LargestEnumeratedCache ==
    LET sizes == {cacheOs.lpiEntries[i].CacheSize : i \in
                     {j \in 1..Len(cacheOs.lpiEntries) :
                         cacheOs.lpiEntries[j].Relationship = "RelationCache"}}
        enumerated == /\ cacheOs.lpiSizing.err = "ERROR_INSUFFICIENT_BUFFER"
                      /\ cacheOs.lpiAlloc
                      /\ cacheOs.lpiSecondCall
    IN  IF enumerated /\ sizes # {}
        THEN CHOOSE m \in sizes : \A x \in sizes : x <= m
        ELSE 0

VendorIs(name) ==
    <<cacheOs.cpuid.ebx, cacheOs.cpuid.edx, cacheOs.cpuid.ecx>> = name

\* the deduction from the processor's registers is unavailable or
\* inconclusive: no cpuid on this target, a vendor that is neither Intel nor
\* AMD, or an AMD processor without leaf 0x80000006
NoVendorDeduction ==
    \/ cacheOs.arch \notin {"AMD64", "X86"}
    \/ ~VendorIs(<<"Genu", "ineI", "ntel">>) /\ ~VendorIs(<<"Auth", "enti", "cAMD">>)
    \/ VendorIs(<<"Auth", "enti", "cAMD">>) /\ cacheOs.cpuid.maxExtendedLeaf < 6

\* C19: when the vendor-specific deduction is unavailable or inconclusive, the
\* true cache size returned is the largest cache the OS enumerates, and 0 only
\* when the OS enumerates none
C19_FallsBackToOsEnumeration ==
    (cacheCall.op = "GetCacheSizePerLogicalCpu" /\ cacheCall.trueSize
        /\ NoVendorDeduction) =>
        cacheCall.ret = LargestEnumeratedCache

\* C20: once a call has returned, no later call queries cpuid or the OS, and
\* it returns the maxTrueSize or maxSize of the first computation, a computed
\* size of 0 included
C20_ComputedOnce ==
    (cacheCall.op = "GetCacheSizePerLogicalCpu" /\ cacheCall.later) =>
        /\ ~cacheCall.cpuidQueried
        /\ ~cacheCall.osQueried
        /\ cacheCall.ret = (IF cacheCall.trueSize THEN maxTrueSize ELSE maxSize)

-----------------------------------------------------------------------------
(* The process: properties *)

\* C21: GetCurrentProcessId returns the identifier of the process, not of
\* the calling thread: the threads of the process that called it all obtained
\* the same value, the process's
C21_ProcessIdSameForAllThreads ==
    \A t1, t2 \in Threads :
        (pidCall[t1] # 0 /\ pidCall[t2] # 0) =>
            /\ pidCall[t1] = pidCall[t2]
            /\ pidCall[t1] = procOs.processId

\* the processors a mask has a bit set for
SetBits(m) == {i \in 0..(MaskBits - 1) : (m \div 2^i) % 2 = 1}

\* the count the affinity facts f call for
ExpectedCpuCount(f) ==
    IF ~f.affinityOk THEN 1
    ELSE IF SetBits(f.processAffinityMask) \cap SetBits(f.systemAffinityMask) = {} THEN 64
    ELSE Cardinality(SetBits(f.processAffinityMask) \cap SetBits(f.systemAffinityMask))

\* C22: GetCurrentProcessCpuCount returns a value in 1..64: 1 when the
\* affinity query fails, 64 when process mask AND system mask is empty, else
\* the number of bits set in it; the first result is cached, and every later
\* call returns it without asking the OS, whatever the affinity has become
C22_CpuCountComputedOnceInRange ==
    cpuCountCall.op = "GetCurrentProcessCpuCount" =>
        /\ cpuCountCall.ret \in 1..64
        /\ cpuCountCall.ret = ExpectedCpuCount(cpuCountCall.first)
        /\ cCPUs = cpuCountCall.ret
        /\ cpuCountCall.queried <=> cpuCountCall.calls = 1

\* C22 witness: a later call returned the first result after the affinity
\* had changed to a different number of processors
C22_Witness ==
    /\ cpuCountCall.op = "GetCurrentProcessCpuCount"
    /\ cpuCountCall.calls >= 2
    /\ ~cpuCountCall.queried
    /\ procOs.affinityOk
    /\ ExpectedCpuCount([affinityOk |-> TRUE,
                          processAffinityMask |-> procOs.processAffinityMask,
                          systemAffinityMask |-> procOs.systemAffinityMask])
          # cpuCountCall.ret

====
